---- MODULE Spec2Model ----
(***************************************************************************)
(* Verification model of the Hyperlane off-chain agents:                   *)
(*   - the relayer's pending-message state machine                         *)
(*       rust/agents/relayer/src/msg/pending_message.rs                    *)
(*   - the forward sequence sync cursor                                    *)
(*       rust/hyperlane-base/src/contract_sync/cursor.rs                   *)
(*   - the multisig checkpoint aggregator                                  *)
(*       rust/hyperlane-base/src/types/multisig.rs                         *)
(*   - the validator's checkpoint submitter                                *)
(*       rust/agents/validator/src/submit.rs                               *)
(* Each subsystem has its own specification (Spec, SpecCursor,             *)
(* SpecMultisig, SpecValidator); the variables of the subsystems a         *)
(* specification does not exercise stay at their idle values.              *)
(***************************************************************************)
EXTENDS Integers, Sequences, FiniteSets, TLC

VARIABLES
    \* ---- pending message (relayer) ----
    pm,                   \* PendingMessage: submitted, submission_data, num_retries, next_attempt_after
    origin_db,            \* HyperlaneRocksDB entries of this message: retry_count, processed
    delivered,            \* destination mailbox: delivered(message.id())
    recipient_is_contract,\* destination provider: is_contract(message.recipient)
    transaction_gas_limit,\* MessageContext.transaction_gas_limit
    stage,                \* which queue of the submitter holds the operation
    result,               \* [op, res, ...] of the last prepare/submit/confirm call
    success_calls,        \* number of calls of record_message_process_success
    \* ---- forward sequence sync cursor ----
    sync_state,           \* SyncState: chunk_size, start_block, next_block, mode, next_sequence
    db_logs,              \* HyperlaneSequenceIndexerStore: sequence -> block of the stored log
    dispatched,           \* the chain: dispatched[s + 1] is the block of the log with sequence s
    tip,                  \* the chain: latest finalized block
    reliable,             \* the provider answers completely and accurately from now on
    cursor_action,        \* CursorAction returned by the last next_action
    update_logs,          \* the logs handed to update by the step just taken, if any
    initial_sequence,     \* next_sequence at construction
    \* ---- multisig checkpoint aggregator ----
    weighted_validators,  \* &[ValidatorWithWeight], in the on-chain order of the set
    threshold_weight,     \* the threshold of the ISM
    storage,              \* storage[v][i]: what validator v's syncer returns for index i
    ms_call,              \* the last call made on the MultisigCheckpointSyncer
    ms_result,            \* what that call returned
    \* ---- validator checkpoint submitter ----
    chain_leaves,         \* the leaves of the on-chain merkle tree, in order
    message_db,           \* merkle tree insertions indexed so far, by leaf index
    tree,                 \* the submitter's IncrementalMerkle (its leaves)
    correctness_checkpoint,\* the target of the pass in progress
    checkpoint_queue,     \* checkpoint_queue of the pass in progress
    checkpoint_store,     \* the validator's checkpoint syncer: index -> signed checkpoint
    submitter,            \* "idle", "ingesting", or "failed" once the task has returned Err
    pass_signed,          \* indexes signed since the pass in progress began
    pass_start_store,     \* checkpoint_store when the pass in progress began
    \* ---- run_all (task supervision) ----
    task_state,           \* task_state[t]: "running", "ok", "err", "panicked" or "cancelled"
    ra_tasks,             \* the vector `tasks` held by run_all, as task ids
    ra_result,            \* what run_all returned, once it has
    \* ---- calculate_msg_backoff ----
    bo_num_retries,       \* the argument of the call
    bo_backoff,           \* what the call returned, once it has
    \* ---- operation queues sharing a retry channel ----
    oq_heap,              \* oq_heap[q]: the operations in the BinaryHeap of queue q
    oq_rx,                \* oq_rx[q]: the message ids waiting in retry_rx of queue q
    oq_ret,               \* the last call of push or pop and what it returned
    \* ---- GcsStorageClient (checkpoint syncer on a bucket) ----
    gcs_bucket,           \* the objects of the bucket: the latest-index object and one per checkpoint index
    gcs_call,             \* the last call on the GcsStorageClient and what it returned
    \* ---- RetryingProvider (one request) ----
    rp_method,            \* the JSON-RPC method of the request in progress
    rp_max_requests,      \* RetryingProvider.max_requests
    rp_base_retry_ms,     \* RetryingProvider.base_retry_ms
    rp_i,                 \* request_with_retry: the attempt counter i
    rp_last_err,          \* request_with_retry: last_err, None until an attempt was retried
    rp_answers,           \* what the inner provider answered to each request issued so far
    rp_sleeps,            \* the sleeps taken so far, in ms
    rp_result,            \* what request returned, None while it is running
    \* ---- AggregationIsmMetadataBuilder (one build) ----
    ag_metadatas,         \* what building each declared sub-ISM's metadata returned, in declared order
    ag_threshold,         \* the threshold of the aggregation ISM
    ag_result,            \* what AggregationIsmMetadataBuilder::build returned, None before it has
    \* ---- BaseMetadataBuilder (one recursive build) ----
    md_isms,              \* the ISMs deployed on the destination: module type and, for a routing ISM, the ISM it routes to
    md_ism,               \* the ISM address the build call in progress was given
    md_depth,             \* BaseMetadataBuilder.depth of the builder whose build is in progress
    md_max_depth,         \* BaseMetadataBuilder.max_depth
    md_path,              \* the ISM addresses a sub-builder was dispatched for, outermost first
    md_result,            \* what the outermost build returned, None while it is running
    \* ---- BackwardSequenceSyncCursor (with the cursor variables above) ----
    bw_synced,            \* BackwardSequenceSyncCursor.synced
    \* ---- call_and_retry_n_times (one call) ----
    rc_fn,                \* the entry point called: call_and_retry_n_times or call_with_retry
    rc_n,                 \* call_and_retry_n_times: the argument n
    rc_first_ok,          \* the number of the first call of f that returns Ok, 0 if none ever does
    rc_retry_number,      \* call_and_retry_n_times: the loop variable retry_number
    rc_calls,             \* the calls of f made so far
    rc_ret,               \* what call_and_retry_n_times returned, None while it is running
    \* ---- ForwardSequenceAwareSyncCursorNew ----
    sa_cursor,            \* the ForwardSequenceAwareSyncCursorNew: chunk_size, last_checkpoint, current_checkpoint, target, index_mode
    sa_action,            \* the CursorAction its next_action returned last
    sa_update,            \* the last call of its update: the logs and range given, the cursor before, what it did; None before any
    \* ---- RateLimitedContractSyncCursor ----
    rl_sync_state,        \* RateLimitedContractSyncCursor.sync_state
    rl_tip,               \* RateLimitedContractSyncCursor.tip
    rl_max_sequence,      \* RateLimitedContractSyncCursor.max_sequence
    rl_action,            \* what its next_action returned last: Sleep, Query(range) or an error
    rl_watermark,         \* the high watermark in the store, None while none was stored
    \* ---- one OpQueue, its gauges and the tasks that call it ----
    gq_heap,              \* the operations in the BinaryHeap of the OpQueue
    gq_rx,                \* the message ids waiting in retry_rx of the OpQueue
    gq_metrics,           \* gq_metrics[l]: the gauge of the OpQueue for the app context l
    gq_pc,                \* gq_pc[t]: where task t is in its call of push or pop
    gq_op                 \* gq_op[t]: the operation task t holds in that call, None if none

pmVars == <<pm, origin_db, delivered, recipient_is_contract, transaction_gas_limit,
            stage, result, success_calls>>

curVars == <<sync_state, db_logs, dispatched, tip, reliable, cursor_action,
             update_logs, initial_sequence>>

msVars == <<weighted_validators, threshold_weight, storage, ms_call, ms_result>>

valVars == <<chain_leaves, message_db, tree, correctness_checkpoint, checkpoint_queue,
             checkpoint_store, submitter, pass_signed, pass_start_store>>

raVars == <<task_state, ra_tasks, ra_result>>

boVars == <<bo_num_retries, bo_backoff>>

oqVars == <<oq_heap, oq_rx, oq_ret>>

gcsVars == <<gcs_bucket, gcs_call>>

rpVars == <<rp_method, rp_max_requests, rp_base_retry_ms, rp_i, rp_last_err, rp_answers, rp_sleeps, rp_result>>

agVars == <<ag_metadatas, ag_threshold, ag_result>>

mdVars == <<md_isms, md_ism, md_depth, md_max_depth, md_path, md_result>>

bwVars == <<bw_synced>>

rcVars == <<rc_fn, rc_n, rc_first_ok, rc_retry_number, rc_calls, rc_ret>>

saVars == <<sa_cursor, sa_action, sa_update>>

rlVars == <<rl_sync_state, rl_tip, rl_max_sequence, rl_action, rl_watermark>>

gqVars == <<gq_heap, gq_rx, gq_metrics, gq_pc, gq_op>>

extVars == <<raVars, boVars, oqVars, gcsVars, rpVars, agVars, mdVars, bwVars, rcVars, saVars, rlVars, gqVars>>

vars == <<pmVars, curVars, msVars, valVars, extVars>>

otherThanPM == <<curVars, msVars, valVars, extVars>>

otherThanCursor == <<pmVars, msVars, valVars, extVars>>

otherThanMultisig == <<pmVars, curVars, valVars, extVars>>

otherThanValidator == <<pmVars, curVars, msVars, extVars>>

otherThanRunAll ==
    <<pmVars, curVars, msVars, valVars,
      boVars, oqVars, gcsVars, rpVars, agVars, mdVars, bwVars, rcVars, saVars, rlVars, gqVars>>

otherThanBackoff ==
    <<pmVars, curVars, msVars, valVars,
      raVars, oqVars, gcsVars, rpVars, agVars, mdVars, bwVars, rcVars, saVars, rlVars, gqVars>>

otherThanOpQueue ==
    <<pmVars, curVars, msVars, valVars,
      raVars, boVars, gcsVars, rpVars, agVars, mdVars, bwVars, rcVars, saVars, rlVars, gqVars>>

\* run_all has not been called.
IdleRunAll ==
    /\ task_state = << >>
    /\ ra_tasks = << >>
    /\ ra_result = << >>

\* calculate_msg_backoff is not being called on its own.
IdleBackoff ==
    /\ bo_num_retries = 0
    /\ bo_backoff = << >>

\* No operation queue exists.
IdleOpQueue ==
    /\ oq_heap = << >>
    /\ oq_rx = << >>
    /\ oq_ret = << >>

otherThanGcs ==
    <<pmVars, curVars, msVars, valVars,
      raVars, boVars, oqVars, rpVars, agVars, mdVars, bwVars, rcVars, saVars, rlVars, gqVars>>

\* No bucket is in use.
IdleGcs ==
    /\ gcs_bucket = << >>
    /\ gcs_call = << >>

otherThanRetrying ==
    <<pmVars, curVars, msVars, valVars,
      raVars, boVars, oqVars, gcsVars, agVars, mdVars, bwVars, rcVars, saVars, rlVars, gqVars>>

\* No request is going through a retrying provider.
IdleRetrying ==
    /\ rp_method = ""
    /\ rp_max_requests = 0
    /\ rp_base_retry_ms = 0
    /\ rp_i = 0
    /\ rp_last_err = << >>
    /\ rp_answers = << >>
    /\ rp_sleeps = << >>
    /\ rp_result = << >>

otherThanAggregation ==
    <<pmVars, curVars, msVars, valVars,
      raVars, boVars, oqVars, gcsVars, rpVars, mdVars, bwVars, rcVars, saVars, rlVars, gqVars>>

\* No aggregation metadata is being built.
IdleAggregation ==
    /\ ag_metadatas = << >>
    /\ ag_threshold = 0
    /\ ag_result = << >>

otherThanMetadata ==
    <<pmVars, curVars, msVars, valVars,
      raVars, boVars, oqVars, gcsVars, rpVars, agVars, bwVars, rcVars, saVars, rlVars, gqVars>>

\* No metadata is being built recursively.
IdleMetadata ==
    /\ md_isms = << >>
    /\ md_ism = 0
    /\ md_depth = 0
    /\ md_max_depth = 0
    /\ md_path = << >>
    /\ md_result = << >>

otherThanBackward ==
    <<pmVars, msVars, valVars,
      raVars, boVars, oqVars, gcsVars, rpVars, agVars, mdVars, rcVars, saVars, rlVars, gqVars>>

\* No backward cursor exists.
IdleBackward ==
    /\ bw_synced = FALSE

otherThanRetryCall ==
    <<pmVars, curVars, msVars, valVars,
      raVars, boVars, oqVars, gcsVars, rpVars, agVars, mdVars, bwVars, saVars, rlVars, gqVars>>

\* No retried call is made.
IdleRetryCall ==
    /\ rc_fn = "none"
    /\ rc_n = 0
    /\ rc_first_ok = 0
    /\ rc_retry_number = 0
    /\ rc_calls = 0
    /\ rc_ret = << >>

otherThanSequenceAware ==
    <<pmVars, curVars, msVars, valVars,
      raVars, boVars, oqVars, gcsVars, rpVars, agVars, mdVars, bwVars, rcVars, rlVars, gqVars>>

\* No sequence-aware cursor exists.
IdleSequenceAware ==
    /\ sa_cursor = << >>
    /\ sa_action = << >>
    /\ sa_update = << >>

otherThanRateLimited ==
    <<pmVars, curVars, msVars, valVars,
      raVars, boVars, oqVars, gcsVars, rpVars, agVars, mdVars, bwVars, rcVars, saVars, gqVars>>

\* No rate-limited cursor exists.
IdleRateLimited ==
    /\ rl_sync_state = << >>
    /\ rl_tip = 0
    /\ rl_max_sequence = << >>
    /\ rl_action = << >>
    /\ rl_watermark = << >>

otherThanGauge ==
    <<pmVars, curVars, msVars, valVars,
      raVars, boVars, oqVars, gcsVars, rpVars, agVars, mdVars, bwVars, rcVars, saVars, rlVars>>

\* No operation queue with gauges exists.
IdleGauge ==
    /\ gq_heap = {}
    /\ gq_rx = {}
    /\ gq_metrics = << >>
    /\ gq_pc = << >>
    /\ gq_op = << >>

IdleExt ==
    IdleRunAll /\ IdleBackoff /\ IdleOpQueue /\ IdleGcs /\ IdleRetrying /\ IdleAggregation /\ IdleMetadata /\ IdleBackward /\ IdleRetryCall /\ IdleSequenceAware /\ IdleRateLimited /\ IdleGauge

\* No validator submitter is running.
IdleValidator ==
    /\ chain_leaves = << >>
    /\ message_db = << >>
    /\ tree = << >>
    /\ correctness_checkpoint = << >>
    /\ checkpoint_queue = << >>
    /\ checkpoint_store = << >>
    /\ submitter = "none"
    /\ pass_signed = {}
    /\ pass_start_store = << >>

\* No multisig checkpoint syncer is in use.
IdleMultisig ==
    /\ weighted_validators = << >>
    /\ threshold_weight = 0
    /\ storage = << >>
    /\ ms_call = << >>
    /\ ms_result = << >>

\* The cursor before any cursor is constructed.
IdleCursor ==
    /\ sync_state = << >>
    /\ db_logs = << >>
    /\ dispatched = << >>
    /\ tip = 0
    /\ reliable = FALSE
    /\ cursor_action = << >>
    /\ update_logs = << >>
    /\ initial_sequence = 0

-----------------------------------------------------------------------------
(* Rust's Option<T> and Result<T, E> *)

None == << >>
Some(x) == <<x>>
IsSome(o) == Len(o) = 1
Unwrap(o) == o[1]

Err == [ok |-> FALSE]
Ok(x) == [ok |-> TRUE, v |-> x]

Min(a, b) == IF a <= b THEN a ELSE b
Max(a, b) == IF a >= b THEN a ELSE b

-----------------------------------------------------------------------------
(*                        PENDING MESSAGE                                  *)

\* Bound: retry counts at or above MaxRetries are kept as MaxRetries. Below 12
\* they all have the same backoff, so nothing but the count itself is merged.
MaxRetries == 3

\* Seconds; the production value of CONFIRM_DELAY.
CONFIRM_DELAY == 600

Metadatas == {"meta1", "meta2"}
GasLimits == {1, 2}
GasCaps == {None, Some(1)}

\* calculate_msg_backoff: the wait in seconds before the next attempt.
calculate_msg_backoff(num_retries) ==
    IF num_retries < 1 THEN None
    ELSE IF num_retries >= 1 /\ num_retries < 12 THEN Some(10)
    ELSE IF num_retries >= 12 /\ num_retries < 24 THEN Some((num_retries - 11) * 90)
    ELSE IF num_retries >= 24 /\ num_retries < 36 THEN Some(60 * 30)
    ELSE IF num_retries >= 36 /\ num_retries < 48 THEN Some(60 * 60)
    ELSE Some(60 * 60 * 3)

\* An Instant is kept as the number of seconds from now until it is reached
\* (0: reached). Instant::now() + dur is dur; Instant::now() >= a is a = 0.
InstantAfter(dur) == dur

\* PendingMessage::new
NewPendingMessage ==
    [submitted |-> FALSE, submission_data |-> None,
     num_retries |-> 0, next_attempt_after |-> None]

\* PendingMessage::from_persisted_retries
from_persisted_retries(db) ==
    IF IsSome(db.retry_count)
    THEN LET backoff == calculate_msg_backoff(Unwrap(db.retry_count))
         IN  [NewPendingMessage EXCEPT
                 !.num_retries = Unwrap(db.retry_count),
                 !.next_attempt_after =
                     IF IsSome(backoff) THEN Some(InstantAfter(Unwrap(backoff))) ELSE None]
    ELSE NewPendingMessage

\* The handlers work on s = [pm, db]; db_ok says whether a write to the
\* origin db succeeds during the call.

\* persist_retries: a failed write is only logged.
persist_retries(s, db_ok) ==
    IF db_ok THEN [s EXCEPT !.db.retry_count = Some(s.pm.num_retries)] ELSE s

set_retries(s, retries, db_ok) ==
    persist_retries([s EXCEPT !.pm.num_retries = Min(retries, MaxRetries)], db_ok)

reset_attempts(s, db_ok) ==
    [set_retries(s, 0, db_ok) EXCEPT !.pm.next_attempt_after = None]

inc_attempts(s, db_ok) ==
    LET t == set_retries(s, s.pm.num_retries + 1, db_ok)
        backoff == calculate_msg_backoff(t.pm.num_retries)
    IN  [t EXCEPT !.pm.next_attempt_after =
            IF IsSome(backoff) THEN Some(InstantAfter(Unwrap(backoff))) ELSE None]

is_ready(p) ==
    IF IsSome(p.next_attempt_after) THEN Unwrap(p.next_attempt_after) = 0 ELSE TRUE

\* on_reprepare
on_reprepare(s, db_ok) ==
    [s |-> [inc_attempts(s, db_ok) EXCEPT !.pm.submitted = FALSE],
     res |-> "Reprepare", committed |-> FALSE]

Outcome(s, res) == [s |-> s, res |-> res, committed |-> FALSE]

\* What the destination and the gas payment enforcer may answer to one
\* prepare call.
PrepareAnswers ==
    [delivered : {Err, Ok(delivered)},
     is_contract : {Err, Ok(recipient_is_contract)},
     recipient_ism : {Err, Ok("ism")},
     metadata : {Err, Ok(None)} \cup {Ok(Some(m)) : m \in Metadatas},
     estimate : {Err} \cup {Ok(g) : g \in GasLimits},
     enforcer : {Err, Ok(None)} \cup {Ok(Some(g)) : g \in GasLimits}]

\* prepare with the recipient check moved before the delivery check.
prepare_ContractCheckFirst(s, a, cap, db_ok) ==
    IF ~is_ready(s.pm) THEN Outcome(s, "NotReady")
    ELSE IF ~a.is_contract.ok THEN on_reprepare(s, db_ok)
    ELSE IF ~a.is_contract.v THEN Outcome(s, "Drop")
    ELSE IF ~a.delivered.ok THEN on_reprepare(s, db_ok)
    ELSE IF a.delivered.v
        THEN Outcome([s EXCEPT !.pm.submitted = TRUE,
                               !.pm.next_attempt_after = Some(InstantAfter(CONFIRM_DELAY))],
                     "Success")
    ELSE on_reprepare(s, db_ok)

\* prepare that counts the dropped attempt as a retry.
prepare_DropCounts(s, a, cap, db_ok) ==
    IF ~is_ready(s.pm) THEN Outcome(s, "NotReady")
    ELSE IF ~a.delivered.ok THEN on_reprepare(s, db_ok)
    ELSE IF a.delivered.v
        THEN Outcome([s EXCEPT !.pm.submitted = TRUE,
                               !.pm.next_attempt_after = Some(InstantAfter(CONFIRM_DELAY))],
                     "Success")
    ELSE IF ~a.is_contract.ok THEN on_reprepare(s, db_ok)
    ELSE IF ~a.is_contract.v THEN Outcome(inc_attempts(s, db_ok), "Drop")
    ELSE IF ~a.recipient_ism.ok THEN on_reprepare(s, db_ok)
    ELSE IF ~a.metadata.ok THEN on_reprepare(s, db_ok)
    ELSE IF ~IsSome(a.metadata.v) THEN on_reprepare(s, db_ok)
    ELSE IF ~a.estimate.ok THEN on_reprepare(s, db_ok)
    ELSE IF ~a.enforcer.ok THEN on_reprepare(s, db_ok)
    ELSE IF ~IsSome(a.enforcer.v) THEN on_reprepare(s, db_ok)
    ELSE LET gas_limit == a.estimate.v
         IN  IF IsSome(cap) /\ gas_limit > Unwrap(cap)
             THEN on_reprepare(s, db_ok)
             ELSE Outcome([s EXCEPT !.pm.submission_data =
                              Some([metadata |-> Unwrap(a.metadata.v),
                                    gas_limit |-> gas_limit])],
                          "Success")

\* prepare without the comparison against transaction_gas_limit.
prepare_NoCap(s, a, cap, db_ok) ==
    IF ~is_ready(s.pm) THEN Outcome(s, "NotReady")
    ELSE IF ~a.delivered.ok THEN on_reprepare(s, db_ok)
    ELSE IF a.delivered.v
        THEN Outcome([s EXCEPT !.pm.submitted = TRUE,
                               !.pm.next_attempt_after = Some(InstantAfter(CONFIRM_DELAY))],
                     "Success")
    ELSE IF ~a.is_contract.ok THEN on_reprepare(s, db_ok)
    ELSE IF ~a.is_contract.v THEN Outcome(s, "Drop")
    ELSE IF ~a.recipient_ism.ok THEN on_reprepare(s, db_ok)
    ELSE IF ~a.metadata.ok THEN on_reprepare(s, db_ok)
    ELSE IF ~IsSome(a.metadata.v) THEN on_reprepare(s, db_ok)
    ELSE IF ~a.estimate.ok THEN on_reprepare(s, db_ok)
    ELSE IF ~a.enforcer.ok THEN on_reprepare(s, db_ok)
    ELSE IF ~IsSome(a.enforcer.v) THEN on_reprepare(s, db_ok)
    ELSE Outcome([s EXCEPT !.pm.submission_data =
                     Some([metadata |-> Unwrap(a.metadata.v),
                           gas_limit |-> a.estimate.v])],
                 "Success")

\* PendingMessage::prepare
prepare(s, a, cap, db_ok) ==
    IF ~is_ready(s.pm) THEN Outcome(s, "NotReady")
    ELSE IF ~a.delivered.ok THEN on_reprepare(s, db_ok)
    ELSE IF a.delivered.v
        THEN Outcome([s EXCEPT !.pm.submitted = TRUE,
                               !.pm.next_attempt_after = Some(InstantAfter(CONFIRM_DELAY))],
                     "Success")
    ELSE IF ~a.is_contract.ok THEN on_reprepare(s, db_ok)
    ELSE IF ~a.is_contract.v THEN Outcome(s, "Drop")
    ELSE IF ~a.recipient_ism.ok THEN on_reprepare(s, db_ok)
    ELSE IF ~a.metadata.ok THEN on_reprepare(s, db_ok)
    ELSE IF ~IsSome(a.metadata.v) THEN on_reprepare(s, db_ok)
    ELSE IF ~a.estimate.ok THEN on_reprepare(s, db_ok)
    ELSE IF ~a.enforcer.ok THEN on_reprepare(s, db_ok)
    ELSE IF ~IsSome(a.enforcer.v) THEN on_reprepare(s, db_ok)
    ELSE LET gas_limit == a.estimate.v   \* shadows the enforcer's limit
         IN  IF IsSome(cap) /\ gas_limit > Unwrap(cap)
             THEN on_reprepare(s, db_ok)
             ELSE Outcome([s EXCEPT !.pm.submission_data =
                              Some([metadata |-> Unwrap(a.metadata.v),
                                    gas_limit |-> gas_limit])],
                          "Success")

\* What destination.process and record_tx_outcome may answer to one submit
\* call. A transaction cannot execute a message that is already delivered.
SubmitAnswers ==
    [process : {Err, Ok([executed |-> FALSE])}
               \cup (IF delivered THEN {} ELSE {Ok([executed |-> TRUE])}),
     record_tx_outcome : {Err, Ok("recorded")}]

\* submit that leaves the retry count as it is after an executed transaction.
submit_KeepsRetries(s, a, db_ok) ==
    IF s.pm.submitted THEN Outcome(s, "Success")
    ELSE IF ~IsSome(s.pm.submission_data) THEN Outcome(s, "Panic")
    ELSE LET t == [s EXCEPT !.pm.submission_data = None]
         IN  IF ~a.process.ok THEN on_reprepare(t, db_ok)
             ELSE IF ~a.record_tx_outcome.ok THEN Outcome(t, "CriticalFailure")
             ELSE IF a.process.v.executed
                 THEN Outcome([t EXCEPT !.pm.submitted = TRUE,
                                        !.pm.next_attempt_after =
                                            Some(InstantAfter(CONFIRM_DELAY))],
                              "Success")
                 ELSE on_reprepare(t, db_ok)

\* submit that goes on after a failure to record the outcome.
submit_IgnoresRecordFailure(s, a, db_ok) ==
    IF s.pm.submitted THEN Outcome(s, "Success")
    ELSE IF ~IsSome(s.pm.submission_data) THEN Outcome(s, "Panic")
    ELSE LET t == [s EXCEPT !.pm.submission_data = None]
         IN  IF ~a.process.ok THEN on_reprepare(t, db_ok)
             ELSE IF a.process.v.executed
                 THEN Outcome([reset_attempts([t EXCEPT !.pm.submitted = TRUE], db_ok)
                                 EXCEPT !.pm.next_attempt_after =
                                            Some(InstantAfter(CONFIRM_DELAY))],
                              "Success")
                 ELSE on_reprepare(t, db_ok)

\* PendingMessage::submit
submit(s, a, db_ok) ==
    IF s.pm.submitted THEN Outcome(s, "Success")
    ELSE IF ~IsSome(s.pm.submission_data) THEN Outcome(s, "Panic")
    ELSE LET t == [s EXCEPT !.pm.submission_data = None]   \* take()
         IN  IF ~a.process.ok THEN on_reprepare(t, db_ok)
             ELSE IF ~a.record_tx_outcome.ok THEN Outcome(t, "CriticalFailure")
             ELSE IF a.process.v.executed
                 THEN Outcome([reset_attempts([t EXCEPT !.pm.submitted = TRUE], db_ok)
                                 EXCEPT !.pm.next_attempt_after =
                                            Some(InstantAfter(CONFIRM_DELAY))],
                              "Success")
                 ELSE on_reprepare(t, db_ok)

\* What the destination and the origin db may answer to one confirm call.
ConfirmAnswers ==
    [delivered : {Err, Ok(delivered)},
     store_processed : {Err, Ok("stored")},
     debug_assertions : BOOLEAN]

\* record_message_process_success
record_message_process_success(s, a) ==
    IF a.store_processed.ok
    THEN [s |-> [s EXCEPT !.db.processed = TRUE], ok |-> TRUE]
    ELSE [s |-> s, ok |-> FALSE]

\* confirm that takes any answer of the delivered(id) query for delivery.
confirm_IgnoresAnswer(s, a, db_ok) ==
    IF a.debug_assertions /\ ~s.pm.submitted THEN Outcome(s, "Panic")
    ELSE IF ~is_ready(s.pm) THEN Outcome(s, "NotReady")
    ELSE IF ~a.delivered.ok THEN Outcome(inc_attempts(s, db_ok), "NotReady")
    ELSE LET r == record_message_process_success(s, a)
         IN  [s |-> r.s,
              res |-> IF r.ok THEN "Success" ELSE "CriticalFailure",
              committed |-> TRUE]

\* confirm that sends the message back to prepare on a provider error.
confirm_ReprepareOnError(s, a, db_ok) ==
    IF a.debug_assertions /\ ~s.pm.submitted THEN Outcome(s, "Panic")
    ELSE IF ~is_ready(s.pm) THEN Outcome(s, "NotReady")
    ELSE IF ~a.delivered.ok THEN on_reprepare(s, db_ok)
    ELSE IF a.delivered.v
        THEN LET r == record_message_process_success(s, a)
             IN  [s |-> r.s,
                  res |-> IF r.ok THEN "Success" ELSE "CriticalFailure",
                  committed |-> TRUE]
        ELSE on_reprepare(reset_attempts(s, db_ok), db_ok)

\* PendingMessage::confirm
confirm(s, a, db_ok) ==
    IF a.debug_assertions /\ ~s.pm.submitted THEN Outcome(s, "Panic")
    ELSE IF ~is_ready(s.pm) THEN Outcome(s, "NotReady")
    ELSE IF ~a.delivered.ok THEN Outcome(inc_attempts(s, db_ok), "NotReady")
    ELSE IF a.delivered.v
        THEN LET r == record_message_process_success(s, a)
             IN  [s |-> r.s,
                  res |-> IF r.ok THEN "Success" ELSE "CriticalFailure",
                  committed |-> TRUE]
        ELSE on_reprepare(reset_attempts(s, db_ok), db_ok)

\* A submitter that hands an operation that is not ready on to the next stage.
NextStage_AdvancesOnNotReady(op, res) ==
    CASE res = "CriticalFailure" -> "crashed"
      [] res = "Panic" -> "crashed"
      [] res = "Drop" -> "dropped"
      [] res = "Reprepare" -> "prepare"
      [] res \in {"NotReady", "Success"} ->
            (CASE op = "prepare" -> "submit"
               [] op = "submit" -> "confirm"
               [] op = "confirm" -> "done")

\* The submitter moves the operation between its queues by the result of
\* each call.
NextStage(op, res) ==
    CASE res = "CriticalFailure" -> "crashed"
      [] res = "Panic" -> "crashed"
      [] res = "Drop" -> "dropped"
      [] res = "Reprepare" -> "prepare"
      [] res = "NotReady" -> op
      [] res = "Success" ->
            (CASE op = "prepare" -> "submit"
               [] op = "submit" -> "confirm"
               [] op = "confirm" -> "done")

PendingStages == {"prepare", "submit", "confirm"}

State == [pm |-> pm, db |-> origin_db]

\* The operation is handed back with its result.
Return(op, out) ==
    /\ pm' = out.s.pm
    /\ origin_db' = out.s.db
    /\ stage' = NextStage(op, out.res)
    /\ result' = [op |-> op, res |-> out.res]
    /\ success_calls' = success_calls + (IF out.committed THEN 1 ELSE 0)
    /\ UNCHANGED otherThanPM

PrepareWith(answers) ==
    /\ stage = "prepare"
    /\ \E a \in answers, db_ok \in BOOLEAN :
          Return("prepare", prepare(State, a, transaction_gas_limit, db_ok))
    /\ UNCHANGED <<delivered, recipient_is_contract, transaction_gas_limit>>

Prepare == PrepareWith(PrepareAnswers)

Submit ==
    /\ stage = "submit"
    /\ \E a \in SubmitAnswers, db_ok \in BOOLEAN, lands \in BOOLEAN :
          LET out == submit(State, a, db_ok)
              called == ~pm.submitted /\ IsSome(pm.submission_data)
          IN  /\ Return("submit", out)
              \* an executed transaction delivers the message unless its block
              \* is dropped again by a reorg of the destination
              /\ delivered' = IF called /\ a.process.ok /\ a.process.v.executed /\ lands
                              THEN TRUE ELSE delivered
    /\ UNCHANGED <<recipient_is_contract, transaction_gas_limit>>

ConfirmWith(answers) ==
    /\ stage = "confirm"
    /\ \E a \in answers, db_ok \in BOOLEAN :
          Return("confirm", confirm(State, a, db_ok))
    /\ UNCHANGED <<delivered, recipient_is_contract, transaction_gas_limit>>

Confirm == ConfirmWith(ConfirmAnswers)

\* Time passes until next_attempt_after is reached.
Tick ==
    /\ stage \in PendingStages
    /\ IsSome(pm.next_attempt_after)
    /\ Unwrap(pm.next_attempt_after) > 0
    /\ pm' = [pm EXCEPT !.next_attempt_after = Some(0)]
    /\ UNCHANGED <<origin_db, delivered, recipient_is_contract, transaction_gas_limit,
                   stage, result, success_calls>>
    /\ UNCHANGED otherThanPM

\* Another relayer delivers the message.
OtherRelayerDelivers ==
    /\ ~delivered
    /\ delivered' = TRUE
    /\ UNCHANGED <<pm, origin_db, recipient_is_contract, transaction_gas_limit,
                   stage, result, success_calls>>
    /\ UNCHANGED otherThanPM

NoResult == [op |-> "none", res |-> "none"]

InitPM ==
    /\ origin_db \in [retry_count : {None} \cup {Some(n) : n \in 0..MaxRetries},
                      processed : {FALSE}]
    /\ pm = from_persisted_retries(origin_db)
    /\ delivered = FALSE
    /\ recipient_is_contract \in BOOLEAN
    /\ transaction_gas_limit \in GasCaps
    /\ stage = "prepare"
    /\ result = NoResult
    /\ success_calls = 0

\* The relayer holds no pending message.
IdlePM ==
    /\ origin_db = << >>
    /\ pm = << >>
    /\ delivered = FALSE
    /\ recipient_is_contract = FALSE
    /\ transaction_gas_limit = None
    /\ stage = "none"
    /\ result = NoResult
    /\ success_calls = 0

NextPM == Prepare \/ Submit \/ Confirm \/ Tick \/ OtherRelayerDelivers

Init == InitPM /\ IdleCursor /\ IdleMultisig /\ IdleValidator /\ IdleExt

Next == NextPM

Spec == Init /\ [][Next]_vars

\* A call made when the message is ready and in which the destination answers
\* the delivered(id) query.
PrepareAnswered ==
    is_ready(pm) /\ PrepareWith({a \in PrepareAnswers : a.delivered.ok})

ConfirmAnswered ==
    is_ready(pm) /\ ConfirmWith({a \in ConfirmAnswers : a.delivered.ok})

\* The submitter's tasks keep running, time passes, and the destination does
\* not fail the delivered(id) query for ever.
FairSpec ==
    /\ Spec
    /\ WF_vars(Prepare) /\ WF_vars(Submit) /\ WF_vars(Confirm) /\ WF_vars(Tick)
    /\ SF_vars(PrepareAnswered) /\ SF_vars(ConfirmAnswered)

-----------------------------------------------------------------------------
(*                  FORWARD SEQUENCE SYNC CURSOR                           *)
(*         rust/hyperlane-base/src/contract_sync/cursor.rs                 *)

\* Bounds of the chain: blocks 0..MaxTip, at most MaxCount dispatched logs.
MaxTip == 3
MaxCount == 3
MaxChunk == 2

MAX_SEQUENCE_RANGE == 20

IndexModes == {"Block", "Sequence"}

\* RangeInclusive<u32>
RangeInclusive(from, to) == [from |-> from, to |-> to]
range_is_empty(r) == r.from > r.to

saturating_sub(a, b) == IF a >= b THEN a - b ELSE 0

\* HyperlaneSequenceIndexerStore::retrieve_by_sequence(..).ok().flatten()
retrieve_by_sequence(db, sequence) ==
    IF sequence \in DOMAIN db /\ IsSome(db[sequence]) THEN Some(sequence) ELSE None

\* SequenceSyncCursor::retrieve_log_block_number
retrieve_log_block_number(db, sequence) ==
    IF sequence \in DOMAIN db THEN db[sequence] ELSE None

\* SyncState::block_range, SyncDirection::Forward
block_range(s, chain_tip) ==
    LET from == s.next_block
        to == Min(from + s.chunk_size, chain_tip)
    IN  [s |-> [s EXCEPT !.next_block = to + 1], range |-> RangeInclusive(from, to)]

\* A sequence_range that issues the range but leaves next_sequence where it is.
sequence_range_NoAdvance(s, max_sequence) ==
    LET sequence_start == s.next_sequence
        sequence_end == Min(sequence_start + MAX_SEQUENCE_RANGE,
                            saturating_sub(max_sequence, 1))
    IN  IF s.next_sequence >= max_sequence
        THEN [s |-> s, range |-> None]
        ELSE [s |-> s, range |-> Some(RangeInclusive(sequence_start, sequence_end))]

\* SyncState::sequence_range, SyncDirection::Forward
sequence_range(s, max_sequence) ==
    LET sequence_start == s.next_sequence
        sequence_end == Min(sequence_start + MAX_SEQUENCE_RANGE,
                            saturating_sub(max_sequence, 1))
    IN  IF s.next_sequence >= max_sequence
        THEN [s |-> s, range |-> None]
        ELSE [s |-> [s EXCEPT !.next_sequence = sequence_end + 1],
              range |-> Some(RangeInclusive(sequence_start, sequence_end))]

\* SyncState::get_next_range; max_sequence is always Some in the forward cursor
SyncState_get_next_range(s, max_sequence, chain_tip) ==
    LET r == IF s.mode = "Block"
             THEN LET b == block_range(s, chain_tip)
                  IN  [s |-> b.s, range |-> Some(b.range)]
             ELSE sequence_range(s, Unwrap(max_sequence))
    IN  IF IsSome(r.range) /\ range_is_empty(Unwrap(r.range))
        THEN [s |-> r.s, range |-> None]
        ELSE r

\* The loop at the head of ForwardSequenceSyncCursor::get_next_range.
RECURSIVE FastForward(_, _)
FastForward(s, db) ==
    IF IsSome(retrieve_by_sequence(db, s.next_sequence))
    THEN LET block_number == retrieve_log_block_number(db, s.next_sequence)
             s1 == IF IsSome(block_number)
                   THEN [s EXCEPT !.next_block = Unwrap(block_number)]
                   ELSE s
         IN  FastForward([s1 EXCEPT !.next_sequence = @ + 1], db)
    ELSE s

\* A get_next_range that, level with the mailbox, leaves next_block alone.
get_next_range_KeepsBlock(s, db, answer) ==
    LET s1 == FastForward(s, db)
    IN  IF ~answer.ok THEN [s |-> s1, range |-> None]
        ELSE IF ~IsSome(answer.v.count) THEN [s |-> s1, range |-> None]
        ELSE LET mailbox_count == Unwrap(answer.v.count)
                 cursor_count == s1.next_sequence
             IN  IF cursor_count = mailbox_count
                 THEN [s |-> s1, range |-> None]
                 ELSE IF cursor_count < mailbox_count
                 THEN SyncState_get_next_range(s1, Some(mailbox_count), answer.v.tip)
                 ELSE [s |-> s1, range |-> None]

\* ForwardSequenceSyncCursor::get_next_range; answer is what
\* indexer.sequence_and_tip() returns.
get_next_range(s, db, answer) ==
    LET s1 == FastForward(s, db)
    IN  IF ~answer.ok THEN [s |-> s1, range |-> None]
        ELSE IF ~IsSome(answer.v.count) THEN [s |-> s1, range |-> None]
        ELSE LET mailbox_count == Unwrap(answer.v.count)
                 cursor_count == s1.next_sequence
             IN  IF cursor_count = mailbox_count
                 THEN [s |-> [s1 EXCEPT !.next_block = answer.v.tip], range |-> None]
                 ELSE IF cursor_count < mailbox_count
                 THEN SyncState_get_next_range(s1, Some(mailbox_count), answer.v.tip)
                 ELSE [s |-> s1, range |-> None]

\* SequenceSyncCursor::update
SequenceSyncCursor_update(s, db, logs, prev_sequence) ==
    IF logs # {} /\ ~(\E m \in logs : m = s.next_sequence)
    THEN LET block_number == retrieve_log_block_number(db, prev_sequence)
         IN  IF IsSome(block_number)
             THEN [s EXCEPT !.next_block = Unwrap(block_number)]
             ELSE [s EXCEPT !.next_block = s.start_block]
    ELSE s

\* ForwardSequenceSyncCursor::update without the filter on the logs.
update_Unfiltered(s, db, logs) ==
    SequenceSyncCursor_update(s, db, logs, saturating_sub(s.next_sequence, 1))

\* <ForwardSequenceSyncCursor as ContractSyncCursor>::update
update(s, db, logs) ==
    LET prev_sequence == saturating_sub(s.next_sequence, 1)
        filtered_logs == {m \in logs : m >= s.next_sequence}
    IN  SequenceSyncCursor_update(s, db, filtered_logs, prev_sequence)

\* store_logs of the store: every log is stored under its sequence with the
\* block it was dispatched in.
store_logs(db, logs) ==
    [q \in DOMAIN db |-> IF q \in logs THEN Some(dispatched[q + 1]) ELSE db[q]]

\* CursorAction
Sleep == [kind |-> "Sleep"]
Query(range) == [kind |-> "Query", range |-> range]

\* The logs of the chain that lie in a range.
LogsInRange(range) ==
    IF sync_state.mode = "Block"
    THEN {q \in 0..(Len(dispatched) - 1) :
              dispatched[q + 1] >= range.from /\ dispatched[q + 1] <= range.to}
    ELSE {q \in 0..(Len(dispatched) - 1) : q >= range.from /\ q <= range.to}

\* Indexer::fetch_logs: a provider may drop logs.
FetchAnswers(range) ==
    IF reliable THEN {LogsInRange(range)} ELSE SUBSET LogsInRange(range)

\* SequenceIndexer::sequence_and_tip: a provider may fail, may not know the
\* count, or may answer from a node that is behind.
SequenceAndTipAnswers ==
    IF reliable
    THEN {Ok([count |-> Some(Len(dispatched)), tip |-> tip])}
    ELSE {Err, Ok([count |-> None, tip |-> tip])}
         \cup {Ok([count |-> Some(c), tip |-> tip]) : c \in 0..Len(dispatched)}

\* One turn of the sync loop: next_action of the cursor.
NextAction ==
    /\ cursor_action.kind = "Sleep"
    /\ \E answer \in SequenceAndTipAnswers :
          LET out == get_next_range(sync_state, db_logs, answer)
          IN  /\ sync_state' = out.s
              /\ cursor_action' = IF IsSome(out.range) THEN Query(Unwrap(out.range))
                                  ELSE Sleep
    /\ update_logs' = None
    /\ UNCHANGED <<db_logs, dispatched, tip, reliable, initial_sequence>>
    /\ UNCHANGED otherThanCursor

\* One turn of the sync loop after CursorAction::Query(range): fetch the logs
\* of the range, store them, and hand them to update of the cursor.
QueryRange ==
    /\ cursor_action.kind = "Query"
    /\ \E logs \in FetchAnswers(cursor_action.range) :
          /\ db_logs' = store_logs(db_logs, logs)
          /\ sync_state' = update(sync_state, db_logs', logs)
          /\ update_logs' = Some(logs)
    /\ cursor_action' = Sleep
    /\ UNCHANGED <<dispatched, tip, reliable, initial_sequence>>
    /\ UNCHANGED otherThanCursor

\* The chain finalizes a block in which k messages were dispatched.
NewBlock ==
    /\ tip < MaxTip
    /\ \E k \in 0..Min(2, MaxCount - Len(dispatched)) :
          dispatched' = dispatched \o [i \in 1..k |-> tip + 1]
    /\ tip' = tip + 1
    /\ UNCHANGED <<sync_state, db_logs, reliable, cursor_action, update_logs,
                   initial_sequence>>
    /\ UNCHANGED otherThanCursor

\* From now on the provider returns complete logs and the current count.
BecomesReliable ==
    /\ ~reliable
    /\ reliable' = TRUE
    /\ UNCHANGED <<sync_state, db_logs, dispatched, tip, cursor_action, update_logs,
                   initial_sequence>>
    /\ UNCHANGED otherThanCursor

\* ForwardSequenceSyncCursor::new
ForwardSequenceSyncCursor_new(chunk_size, start_block, next_block, mode, next_sequence) ==
    [chunk_size |-> chunk_size, start_block |-> start_block, next_block |-> next_block,
     mode |-> mode, next_sequence |-> next_sequence]

\* ForwardBackwardSequenceSyncCursor::new: the forward cursor starts at the
\* count and the tip that sequence_and_tip() reports at construction.
InitCursor ==
    /\ tip = 0
    /\ dispatched \in {<< >>, <<0>>}
    /\ \E chunk_size \in 1..MaxChunk, mode \in IndexModes :
          sync_state = ForwardSequenceSyncCursor_new(chunk_size, tip, tip, mode,
                                                     Len(dispatched))
    /\ initial_sequence = Len(dispatched)
    /\ db_logs = [q \in 0..(MaxCount - 1) |-> None]
    /\ reliable = FALSE
    /\ cursor_action = Sleep
    /\ update_logs = None

NextCursor == NextAction \/ QueryRange \/ NewBlock \/ BecomesReliable

CursorInit == InitCursor /\ IdlePM /\ IdleMultisig /\ IdleValidator /\ IdleExt

SpecCursor == CursorInit /\ [][NextCursor]_vars

\* The sync loop keeps running.
FairSpecCursor == SpecCursor /\ WF_vars(NextAction) /\ WF_vars(QueryRange)

-----------------------------------------------------------------------------
(*                  MULTISIG CHECKPOINT AGGREGATOR                         *)
(*            rust/hyperlane-base/src/types/multisig.rs                    *)

\* Bounds of the inputs.
NumValidators == 2
MaxWeight == 2
MaxThreshold == 3
MaxIndex == 1
NumRoots == 2
NumMessageIds == 2

\* Addresses of the declared validators, and an address outside the set.
Validators == 1..NumValidators
Stranger == 0
Indices == 0..MaxIndex
Roots == 1..NumRoots
MessageIds == 1..NumMessageIds

\* CheckpointWithMessageId
CheckpointWithMessageId(root, index, message_id) ==
    [root |-> root, index |-> index, message_id |-> message_id]

\* A signature: the key that made it (None for bytes that are no valid
\* signature) and the value whose hash it was made over.
Signature(by, over) == [by |-> by, over |-> over]

\* HyperlaneSignerExt::sign
sign(signer, value) == [value |-> value, signature |-> Signature(Some(signer), value)]

\* Signature::recover over a value: the signing key's address if the
\* signature was made over this value, an unrelated address if it was made
\* over another one, an error if the bytes are no signature.
recover_over(value, signature) ==
    IF ~IsSome(signature.by) THEN Err
    ELSE IF signature.over = value THEN Ok(Unwrap(signature.by))
    ELSE Ok(Stranger)

\* SignedType::recover
recover(signed) == recover_over(signed.value, signed.signature)

\* Stable sort, ascending by key, of a sequence of [key, item] records
\* (slice::sort_by_key and itertools::sorted_by_key are stable).
RECURSIVE InsertByKey(_, _)
InsertByKey(sorted, x) ==
    IF sorted = << >> THEN <<x>>
    ELSE IF sorted[Len(sorted)].key <= x.key THEN Append(sorted, x)
    ELSE Append(InsertByKey(SubSeq(sorted, 1, Len(sorted) - 1), x),
                sorted[Len(sorted)])

RECURSIVE SortKeyed(_)
SortKeyed(keyed) ==
    IF keyed = << >> THEN << >>
    ELSE InsertByKey(SortKeyed(SubSeq(keyed, 1, Len(keyed) - 1)), keyed[Len(keyed)])

\* sort_by_key: the items of seq, sorted by the keys given for its positions.
sort_by_key(seq, keys) ==
    LET sorted == SortKeyed([k \in 1..Len(seq) |-> [key |-> keys[k], item |-> seq[k]]])
    IN  [k \in 1..Len(seq) |-> sorted[k].item]

\* ValidatorSignedCheckpoints::default
NoSignedCheckpoints == [cumulative_weight |-> 0, signed_checkpoints |-> << >>]

\* ValidatorSignedCheckpoints::push
push(group, checkpoint) ==
    [cumulative_weight |-> group.cumulative_weight + checkpoint.weight,
     signed_checkpoints |-> Append(group.signed_checkpoints, checkpoint)]

\* The multisig checkpoint built from signed checkpoints in the given order.
MultisigOf(signed_checkpoints) ==
    [checkpoint |-> signed_checkpoints[1].signed_checkpoint.value,
     signatures |-> [k \in 1..Len(signed_checkpoints) |->
                        signed_checkpoints[k].signed_checkpoint.signature]]

\* into_multisig_checkpoint without the sort by ism_index.
into_multisig_checkpoint_Unsorted(group) ==
    IF group.signed_checkpoints = << >> THEN Err
    ELSE Ok(MultisigOf(group.signed_checkpoints))

\* ValidatorSignedCheckpoints::into_multisig_checkpoint
into_multisig_checkpoint(group) ==
    LET sorted == sort_by_key(group.signed_checkpoints,
                              [k \in 1..Len(group.signed_checkpoints) |->
                                  group.signed_checkpoints[k].ism_index])
    IN  IF sorted = << >> THEN Err ELSE Ok(MultisigOf(sorted))

\* weighted_validators.iter().enumerate().sorted_by_key(Reverse(weight))
sorted_validators(validators) ==
    sort_by_key([k \in 1..Len(validators) |-> [ism_index |-> k - 1, vw |-> validators[k]]],
                [k \in 1..Len(validators) |-> 0 - validators[k].weight])

\* The loop of fetch_checkpoint over sorted_validators[k..]; store[v] is what
\* checkpoint_syncer.fetch_checkpoint(index) of validator v yields.
RECURSIVE FetchCheckpointLoop(_, _, _, _, _, _)
FetchCheckpointLoop(sorted, k, per_root, threshold, index, store) ==
    IF k > Len(sorted) THEN Ok(None)
    ELSE LET ism_index == sorted[k].ism_index
             vw == sorted[k].vw
             fetched == store[vw.validator]
             continue == FetchCheckpointLoop(sorted, k + 1, per_root, threshold, index, store)
         IN  IF ~IsSome(fetched) THEN continue
             ELSE LET signed_checkpoint == Unwrap(fetched)
                      signer == recover(signed_checkpoint)
                      root == signed_checkpoint.value.root
                      signed_checkpoints ==
                          push(per_root[root],
                               [signed_checkpoint |-> signed_checkpoint,
                                weight |-> vw.weight, ism_index |-> ism_index])
                  IN  IF signed_checkpoint.value.index # index THEN continue
                      ELSE IF ~signer.ok THEN Err
                      ELSE IF signer.v # vw.validator THEN continue
                      ELSE IF signed_checkpoints.cumulative_weight >= threshold
                      THEN LET multisig == into_multisig_checkpoint(signed_checkpoints)
                           IN  IF multisig.ok THEN Ok(Some(multisig.v)) ELSE Ok(None)
                      ELSE FetchCheckpointLoop(sorted, k + 1,
                               [per_root EXCEPT ![root] = signed_checkpoints],
                               threshold, index, store)

\* MultisigCheckpointSyncer::fetch_checkpoint
fetch_checkpoint(validators, threshold, index, stores) ==
    FetchCheckpointLoop(sorted_validators(validators), 1,
                        [r \in Roots |-> NoSignedCheckpoints], threshold, index,
                        [v \in DOMAIN stores |-> stores[v][index]])

RECURSIVE SumWeights(_, _)
SumWeights(validators, S) ==
    IF validators = << >> THEN 0
    ELSE (IF validators[1].validator \in S THEN validators[1].weight ELSE 0)
         + SumWeights(Tail(validators), S)

\* MultisigCheckpointSyncer::fetch_highest_quorum_index
RECURSIVE HighestQuorumLoop(_, _, _, _, _)
HighestQuorumLoop(validators, threshold, sorted_indices, k, validators_included) ==
    IF k > Len(sorted_indices) THEN None
    ELSE LET validator == sorted_indices[k][1]
             index == sorted_indices[k][2]
             declared == \E j \in 1..Len(validators) : validators[j].validator = validator
             included == IF declared THEN validators_included \cup {validator}
                         ELSE validators_included
         IN  IF SumWeights(validators, included) >= threshold THEN Some(index)
             ELSE HighestQuorumLoop(validators, threshold, sorted_indices, k + 1, included)

\* The loop without validators_included: every entry adds its validator's weight.
RECURSIVE HighestQuorumLoop_CountsAll(_, _, _, _, _)
HighestQuorumLoop_CountsAll(validators, threshold, sorted_indices, k, cumulative_weight) ==
    IF k > Len(sorted_indices) THEN None
    ELSE LET weight == SumWeights(validators, {sorted_indices[k][1]})
         IN  IF cumulative_weight + weight >= threshold THEN Some(sorted_indices[k][2])
             ELSE HighestQuorumLoop_CountsAll(validators, threshold, sorted_indices, k + 1,
                                              cumulative_weight + weight)

fetch_highest_quorum_index_CountsAll(validators, threshold, sorted_indices) ==
    HighestQuorumLoop_CountsAll(validators, threshold, sorted_indices, 1, 0)

fetch_highest_quorum_index(validators, threshold, sorted_indices) ==
    HighestQuorumLoop(validators, threshold, sorted_indices, 1, {})

\* CheckpointSyncer::latest_index of a validator's storage: the highest index
\* it holds a checkpoint file for.
latest_index(store) ==
    LET held == {i \in DOMAIN store : IsSome(store[i])}
    IN  IF held = {} THEN None
        ELSE Some(CHOOSE i \in held : \A j \in held : j <= i)

\* get_validator_latest_checkpoints_and_update_metrics: the entries of the
\* validators that returned a latest index, in the order given (the code
\* collects them from a HashMap, whose order is unspecified).
RECURSIVE latest_checkpoints(_, _)
latest_checkpoints(order, stores) ==
    IF order = << >> THEN << >>
    ELSE LET li == latest_index(stores[Head(order)])
         IN  (IF IsSome(li) THEN << <<Head(order), Unwrap(li)>> >> ELSE << >>)
             \o latest_checkpoints(Tail(order), stores)

\* latest_indices.sort_by(|a, b| b.1.cmp(&a.1))
sort_descending_by_index(latest_indices) ==
    sort_by_key(latest_indices,
                [k \in 1..Len(latest_indices) |-> 0 - latest_indices[k][2]])

\* for index in (minimum_index..=start_index).rev()
RECURSIVE InRangeLoop(_, _, _, _, _)
InRangeLoop(validators, threshold, minimum_index, index, stores) ==
    IF index < minimum_index THEN Ok(None)
    ELSE LET fetched == fetch_checkpoint(validators, threshold, index, stores)
         IN  IF fetched.ok /\ IsSome(fetched.v) THEN Ok(Some(Unwrap(fetched.v)))
             ELSE InRangeLoop(validators, threshold, minimum_index, index - 1, stores)

\* MultisigCheckpointSyncer::fetch_checkpoint_in_range
fetch_checkpoint_in_range(validators, threshold, minimum_index, maximum_index, stores, order) ==
    LET latest_indices == latest_checkpoints(order, stores)
        sorted_indices == sort_descending_by_index(latest_indices)
        highest_quorum_index == fetch_highest_quorum_index(validators, threshold, sorted_indices)
    IN  IF latest_indices = << >> THEN Ok(None)
        ELSE IF ~IsSome(highest_quorum_index) THEN Ok(None)
        ELSE LET start_index == Min(Unwrap(highest_quorum_index), maximum_index)
             IN  IF minimum_index > start_index THEN Ok(None)
                 ELSE InRangeLoop(validators, threshold, minimum_index, start_index, stores)

\* What a validator's storage may hold for an index: nothing, a checkpoint of
\* that index signed by the validator, a checkpoint of another index, a
\* checkpoint signed by another key, or one whose signature is no signature.
CheckpointKinds ==
    {<<"none", 1, 1>>, <<"other_index", 1, 1>>, <<"other_signer", 1, 1>>,
     <<"unrecoverable", 1, 1>>}
        \cup {<<"signed", r, m>> : r \in Roots, m \in MessageIds}

StoredCheckpoint(v, i, kind) ==
    LET value == CheckpointWithMessageId(kind[2], i, kind[3])
    IN  CASE kind[1] = "none" -> None
          [] kind[1] = "other_index" ->
                Some(sign(v, CheckpointWithMessageId(kind[2], i + 1, kind[3])))
          [] kind[1] = "other_signer" -> Some(sign(Stranger, value))
          [] kind[1] = "unrecoverable" ->
                Some([value |-> value, signature |-> Signature(None, value)])
          [] kind[1] = "signed" -> Some(sign(v, value))

NoCall == [fn |-> "none"]

InitMultisig ==
    /\ \E weight \in [Validators -> 1..MaxWeight] :
          weighted_validators = [k \in Validators |-> [validator |-> k, weight |-> weight[k]]]
    /\ threshold_weight \in 1..MaxThreshold
    /\ \E kind \in [Validators \X Indices -> CheckpointKinds] :
          storage = [v \in Validators |->
                        [i \in Indices |-> StoredCheckpoint(v, i, kind[<<v, i>>])]]
    /\ ms_call = NoCall
    /\ ms_result = << >>

\* A metadata builder calls fetch_checkpoint for an index.  The functions are
\* pure in the inputs drawn by the initial state, so one call is made on each.
FetchCheckpoint ==
    /\ ms_call = NoCall
    /\ \E index \in Indices :
          /\ ms_call' = [fn |-> "fetch_checkpoint", index |-> index]
          /\ ms_result' = fetch_checkpoint(weighted_validators, threshold_weight, index,
                                           storage)
    /\ UNCHANGED <<weighted_validators, threshold_weight, storage>>
    /\ UNCHANGED otherThanMultisig

\* A metadata builder calls fetch_checkpoint_in_range.
FetchCheckpointInRange ==
    /\ ms_call = NoCall
    /\ \E minimum_index \in Indices, maximum_index \in Indices,
          order \in {<<1>> \o [k \in 1..(NumValidators - 1) |-> k + 1],
                     [k \in 1..(NumValidators - 1) |-> k + 1] \o <<1>>} :
          /\ ms_call' = [fn |-> "fetch_checkpoint_in_range",
                         minimum_index |-> minimum_index,
                         maximum_index |-> maximum_index]
          /\ ms_result' = fetch_checkpoint_in_range(weighted_validators, threshold_weight,
                              minimum_index, maximum_index, storage, order)
    /\ UNCHANGED <<weighted_validators, threshold_weight, storage>>
    /\ UNCHANGED otherThanMultisig

NextMultisig == FetchCheckpoint \/ FetchCheckpointInRange

MultisigInit == InitMultisig /\ IdlePM /\ IdleCursor /\ IdleValidator /\ IdleExt

SpecMultisig == MultisigInit /\ [][NextMultisig]_vars

\* fetch_highest_quorum_index called on its own, as its unit test does: the
\* entries may name a validator twice or one that is not declared.
MaxEntries == 3
MaxLatest == 2

SortedIndices ==
    {e \in UNION {[1..n -> (Validators \cup {Stranger}) \X (0..MaxLatest)] : n \in 0..MaxEntries} :
        \A k \in 1..(Len(e) - 1) : e[k][2] >= e[k + 1][2]}

InitQuorumIndex ==
    /\ \E weight \in [Validators -> 1..MaxWeight] :
          weighted_validators = [k \in Validators |-> [validator |-> k, weight |-> weight[k]]]
    /\ threshold_weight \in 0..(NumValidators * MaxWeight + 1)
    /\ storage = << >>
    /\ ms_call = NoCall
    /\ ms_result = << >>

FetchHighestQuorumIndex ==
    /\ ms_call = NoCall
    /\ \E sorted_indices \in SortedIndices :
          /\ ms_call' = [fn |-> "fetch_highest_quorum_index", sorted_indices |-> sorted_indices]
          /\ ms_result' = fetch_highest_quorum_index(weighted_validators, threshold_weight,
                                                     sorted_indices)
    /\ UNCHANGED <<weighted_validators, threshold_weight, storage>>
    /\ UNCHANGED otherThanMultisig

NextQuorumIndex == FetchHighestQuorumIndex

QuorumIndexInit == InitQuorumIndex /\ IdlePM /\ IdleCursor /\ IdleValidator /\ IdleExt

SpecQuorumIndex == QuorumIndexInit /\ [][NextQuorumIndex]_vars

-----------------------------------------------------------------------------
(*                  VALIDATOR CHECKPOINT SUBMITTER                         *)
(*               rust/agents/validator/src/submit.rs                       *)

\* Bound: the on-chain tree holds at most MaxLeaves leaves.
MaxLeaves == 3

\* The address of the validator's signing key.
ValidatorKey == 1

\* IncrementalMerkle::root: the root commits to the sequence of leaves; two
\* trees have the same root exactly if they hold the same leaves.
MerkleRoot(leaves) == [leaves |-> leaves]

\* IncrementalMerkle::count, IncrementalMerkle::index
tree_count(t) == Len(t)
tree_index(t) == Len(t) - 1

\* An ingest that starts the tree over with the new leaf.
ingest_StartsOver(t, message_id) == <<message_id>>

\* IncrementalMerkle::ingest
ingest(t, message_id) == Append(t, message_id)

\* ValidatorSubmitter::checkpoint
checkpoint(t) == [root |-> MerkleRoot(t), index |-> tree_index(t)]

\* tree_exceeds_checkpoint
tree_exceeds_checkpoint(c, t) == c.index + 1 < tree_count(t)

\* MerkleTreeHook::latest_checkpoint: the checkpoint of the on-chain tree at
\* one of its leaves (a provider may answer from a node that is behind).
latest_checkpoint(index) ==
    [root |-> MerkleRoot(SubSeq(chain_leaves, 1, index + 1)), index |-> index]

\* What sign_and_submit_checkpoints can meet: done entries of the queue are
\* handled without error, then the syncer's fetch, the signer, or the syncer's
\* write fails (fault "none": nothing fails).
SubmitAnswers_validator(queue) ==
    [done : {Len(queue)}, fault : {"none"}]
        \cup [done : 0..(Len(queue) - 1), fault : {"fetch", "sign", "write"}]

\* ValidatorSubmitter::sign_and_submit_checkpoints, from queue entry k on.
RECURSIVE SignAndSubmitLoop(_, _, _, _, _)
SignAndSubmitLoop(queue, k, store, signed, a) ==
    IF k > Len(queue) THEN [ok |-> TRUE, store |-> store, signed |-> signed]
    ELSE LET queued_checkpoint == queue[k]
             index == queued_checkpoint.checkpoint.index
             failing == k = a.done + 1 /\ a.fault # "none"
         IN  IF failing /\ a.fault = "fetch"
             THEN [ok |-> FALSE, store |-> store, signed |-> signed]
             ELSE IF IsSome(store[index])
             THEN SignAndSubmitLoop(queue, k + 1, store, signed, a)
             ELSE IF failing /\ a.fault = "sign"
             THEN [ok |-> FALSE, store |-> store, signed |-> signed]
             ELSE IF failing /\ a.fault = "write"
             THEN [ok |-> FALSE, store |-> store, signed |-> signed \cup {index}]
             ELSE SignAndSubmitLoop(queue, k + 1,
                      [store EXCEPT ![index] = Some(sign(ValidatorKey, queued_checkpoint))],
                      signed \cup {index}, a)

\* sign_and_submit_checkpoints without the lookup of an existing checkpoint.
RECURSIVE SignAndSubmitLoop_NoSkip(_, _, _, _, _)
SignAndSubmitLoop_NoSkip(queue, k, store, signed, a) ==
    IF k > Len(queue) THEN [ok |-> TRUE, store |-> store, signed |-> signed]
    ELSE LET index == queue[k].checkpoint.index
             failing == k = a.done + 1 /\ a.fault # "none"
         IN  IF failing /\ a.fault \in {"fetch", "sign"}
             THEN [ok |-> FALSE, store |-> store, signed |-> signed]
             ELSE IF failing /\ a.fault = "write"
             THEN [ok |-> FALSE, store |-> store, signed |-> signed \cup {index}]
             ELSE SignAndSubmitLoop_NoSkip(queue, k + 1,
                      [store EXCEPT ![index] = Some(sign(ValidatorKey, queue[k]))],
                      signed \cup {index}, a)

sign_and_submit_checkpoints_NoSkip(queue, store, a) ==
    SignAndSubmitLoop_NoSkip(queue, 1, store, {}, a)

\* sign_and_submit_checkpoints that publishes every queued checkpoint two
\* indexes ahead of the tree it was taken from.
sign_and_submit_checkpoints_Ahead(queue, store, a) ==
    SignAndSubmitLoop([k \in 1..Len(queue) |->
                          [queue[k] EXCEPT !.checkpoint.index = Min(@ + 2, MaxLeaves - 1)]],
                      1, store, {}, a)

sign_and_submit_checkpoints(queue, store, a) ==
    SignAndSubmitLoop(queue, 1, store, {}, a)

\* The end of submit_checkpoints_until_correctness_checkpoint without the
\* comparison of the tree's checkpoint with the correctness checkpoint.
reach_correctness_checkpoint_Unchecked(t, correctness, queue, store, a) ==
    IF correctness.index # tree_index(t)
    THEN [ok |-> FALSE, store |-> store, signed |-> {}]
    ELSE sign_and_submit_checkpoints(queue, store, a)

\* The end of submit_checkpoints_until_correctness_checkpoint, once the loop
\* has ingested the leaves: assert_eq on the index, the comparison, and
\* sign_and_submit_checkpoints.
reach_correctness_checkpoint(t, correctness, queue, store, a) ==
    IF correctness.index # tree_index(t)
    THEN [ok |-> FALSE, store |-> store, signed |-> {}]
    ELSE IF checkpoint(t) # correctness
    THEN [ok |-> FALSE, store |-> store, signed |-> {}]
    ELSE sign_and_submit_checkpoints(queue, store, a)

\* A message is dispatched: the on-chain tree gets a leaf.
InsertLeaf ==
    /\ Len(chain_leaves) < MaxLeaves
    /\ \E message_id \in MessageIds : chain_leaves' = Append(chain_leaves, message_id)
    /\ UNCHANGED <<message_db, tree, correctness_checkpoint, checkpoint_queue,
                   checkpoint_store, submitter, pass_signed, pass_start_store>>
    /\ UNCHANGED otherThanValidator

\* The indexer stores the next merkle tree insertion; what it stores may
\* differ from the leaf the chain ends up with (a reorg, a faulty provider).
StoreInsertion ==
    /\ Len(message_db) < Len(chain_leaves)
    /\ \E message_id \in MessageIds : message_db' = Append(message_db, message_id)
    /\ UNCHANGED <<chain_leaves, tree, correctness_checkpoint, checkpoint_queue,
                   checkpoint_store, submitter, pass_signed, pass_start_store>>
    /\ UNCHANGED otherThanValidator

\* checkpoint_submitter: one turn of the loop up to the call of
\* submit_checkpoints_until_correctness_checkpoint, and the head of that call.
StartPass ==
    /\ submitter = "idle"
    /\ chain_leaves # << >>
    /\ \E answer \in {Err} \cup {Ok(latest_checkpoint(i)) : i \in 0..(Len(chain_leaves) - 1)} :
          IF ~answer.ok
          THEN /\ submitter' = "failed"
               /\ UNCHANGED <<correctness_checkpoint, checkpoint_queue, pass_signed,
                              pass_start_store>>
          ELSE IF tree_exceeds_checkpoint(answer.v, tree)
          THEN UNCHANGED <<submitter, correctness_checkpoint, checkpoint_queue,
                           pass_signed, pass_start_store>>
          ELSE /\ submitter' = "ingesting"
               /\ correctness_checkpoint' = answer.v
               /\ checkpoint_queue' = << >>
               /\ pass_signed' = {}
               /\ pass_start_store' = checkpoint_store
    /\ UNCHANGED <<chain_leaves, message_db, tree, checkpoint_store>>
    /\ UNCHANGED otherThanValidator

\* One turn of the while loop of submit_checkpoints_until_correctness_checkpoint
\* that finds the next insertion in the database.
IngestLeaf ==
    /\ submitter = "ingesting"
    /\ correctness_checkpoint.index + 1 > tree_count(tree)
    /\ tree_count(tree) + 1 <= Len(message_db)
    /\ \E db_ok \in BOOLEAN :
          IF ~db_ok
          THEN /\ submitter' = "failed"
               /\ UNCHANGED <<tree, checkpoint_queue>>
          ELSE LET message_id == message_db[tree_count(tree) + 1]
               IN  /\ tree' = ingest(tree, message_id)
                   /\ checkpoint_queue' =
                         Append(checkpoint_queue,
                                [checkpoint |-> checkpoint(tree'), message_id |-> message_id])
                   /\ UNCHANGED submitter
    /\ UNCHANGED <<chain_leaves, message_db, correctness_checkpoint, checkpoint_store,
                   pass_signed, pass_start_store>>
    /\ UNCHANGED otherThanValidator

\* The rest of submit_checkpoints_until_correctness_checkpoint after the loop.
ReachCorrectnessCheckpoint ==
    /\ submitter = "ingesting"
    /\ ~(correctness_checkpoint.index + 1 > tree_count(tree))
    /\ \E a \in SubmitAnswers_validator(checkpoint_queue) :
          LET out == reach_correctness_checkpoint(tree, correctness_checkpoint,
                                                  checkpoint_queue, checkpoint_store, a)
          IN  /\ checkpoint_store' = out.store
              /\ pass_signed' = out.signed
              /\ submitter' = IF out.ok THEN "idle" ELSE "failed"
    /\ UNCHANGED <<chain_leaves, message_db, tree, correctness_checkpoint,
                   checkpoint_queue, pass_start_store>>
    /\ UNCHANGED otherThanValidator

\* The submitter starts with an empty tree; its syncer is empty or, after a
\* restart, holds the checkpoint of index 0 it signed before.
InitValidator ==
    /\ chain_leaves = << >>
    /\ message_db = << >>
    /\ tree = << >>
    /\ correctness_checkpoint = << >>
    /\ checkpoint_queue = << >>
    /\ \E first \in {None} \cup {Some(m) : m \in MessageIds} :
          checkpoint_store =
              [i \in 0..(MaxLeaves - 1) |->
                  IF i = 0 /\ IsSome(first)
                  THEN Some(sign(ValidatorKey,
                                 [checkpoint |-> checkpoint(<<Unwrap(first)>>),
                                  message_id |-> Unwrap(first)]))
                  ELSE None]
    /\ submitter = "idle"
    /\ pass_signed = {}
    /\ pass_start_store = checkpoint_store

NextValidator ==
    InsertLeaf \/ StoreInsertion \/ StartPass \/ IngestLeaf \/ ReachCorrectnessCheckpoint

ValidatorInit == InitValidator /\ IdlePM /\ IdleCursor /\ IdleMultisig /\ IdleExt

SpecValidator == ValidatorInit /\ [][NextValidator]_vars

-----------------------------------------------------------------------------
(*                    RUN_ALL (TASK SUPERVISION)                           *)

NumTasks == 3

Tasks == 1..NumTasks

\* What awaiting a JoinHandle gives: Ok(Ok(())), Ok(Err(report)) of the task,
\* or Err(JoinError) when the task panicked or was cancelled.
Finished == {"ok", "err", "panicked", "cancelled"}

\* Vec::swap_remove, as select_all removes the future that completed.
swap_remove(v, i) ==
    IF i = Len(v)
    THEN SubSeq(v, 1, Len(v) - 1)
    ELSE [k \in 1..(Len(v) - 1) |-> IF k = i THEN v[Len(v)] ELSE v[k]]

\* JoinHandle::abort followed by awaiting the handle: a task still running is
\* cancelled, a finished task keeps its outcome.
abort(state) == IF state = "running" THEN "cancelled" ELSE state

\* abort_tasks
abort_tasks(states, remaining) ==
    [t \in DOMAIN states |->
        IF \E k \in 1..Len(remaining) : remaining[k] = t THEN abort(states[t]) ELSE states[t]]

\* The position select_all reports: the first handle of the vector that is ready.
select_all(states, tasks) ==
    CHOOSE i \in 1..Len(tasks) :
        /\ states[tasks[i]] \in Finished
        /\ \A j \in 1..(i - 1) : states[tasks[j]] \notin Finished

\* A supervised task ends by itself: it returns Ok(()), returns an error, or panics.
TaskExits ==
    /\ \E t \in Tasks, outcome \in {"ok", "err", "panicked"} :
          /\ task_state[t] = "running"
          /\ task_state' = [task_state EXCEPT ![t] = outcome]
    /\ UNCHANGED <<ra_tasks, ra_result>>
    /\ UNCHANGED otherThanRunAll

\* One turn of the loop of run_all: select_all resolves, the result is matched.
RunAllStep ==
    /\ ra_result = None
    /\ \E k \in 1..Len(ra_tasks) : task_state[ra_tasks[k]] \in Finished
    /\ LET i == select_all(task_state, ra_tasks)
           res == task_state[ra_tasks[i]]
           remaining == swap_remove(ra_tasks, i)
       IN  IF res = "ok"
           THEN /\ ra_tasks' = remaining
                /\ ra_result' = IF remaining = << >> THEN Some(Ok(0)) ELSE None
                /\ UNCHANGED task_state
           ELSE /\ task_state' = abort_tasks(task_state, remaining)
                /\ ra_tasks' = << >>
                /\ ra_result' = Some([ok |-> FALSE, v |-> ra_tasks[i]])
    /\ UNCHANGED otherThanRunAll

\* run_all is called with a non-empty vector of spawned tasks.
InitRunAll ==
    /\ task_state = [t \in Tasks |-> "running"]
    /\ \E n \in 1..NumTasks : ra_tasks = [k \in 1..n |-> k]
    /\ ra_result = None

NextRunAll == TaskExits \/ RunAllStep

RunAllInit ==
    /\ InitRunAll /\ IdlePM /\ IdleCursor /\ IdleMultisig /\ IdleValidator
    /\ IdleBackoff /\ IdleOpQueue /\ IdleGcs /\ IdleRetrying /\ IdleAggregation /\ IdleMetadata /\ IdleBackward /\ IdleRetryCall /\ IdleSequenceAware /\ IdleRateLimited /\ IdleGauge

SpecRunAll == RunAllInit /\ [][NextRunAll]_vars

-----------------------------------------------------------------------------
(*                    CALCULATE_MSG_BACKOFF                                *)

MaxBackoffRetries == 60

\* A call of calculate_msg_backoff(num_retries) returns.
CalculateMsgBackoff ==
    /\ bo_backoff = None
    /\ bo_backoff' = Some(calculate_msg_backoff(bo_num_retries))
    /\ UNCHANGED bo_num_retries
    /\ UNCHANGED otherThanBackoff

\* calculate_msg_backoff is called with some retry count.
InitBackoff ==
    /\ bo_num_retries \in 0..MaxBackoffRetries
    /\ bo_backoff = None

NextBackoff == CalculateMsgBackoff

BackoffInit ==
    /\ InitBackoff /\ IdlePM /\ IdleCursor /\ IdleMultisig /\ IdleValidator
    /\ IdleRunAll /\ IdleOpQueue /\ IdleGcs /\ IdleRetrying /\ IdleAggregation /\ IdleMetadata /\ IdleBackward /\ IdleRetryCall /\ IdleSequenceAware /\ IdleRateLimited /\ IdleGauge

SpecBackoff == BackoffInit /\ [][NextBackoff]_vars

-----------------------------------------------------------------------------
(*                    OPERATION QUEUE                                      *)

NumOps == 3
NumQueues == 2
MaxInstant == 2

OpIds == 1..NumOps

Queues == 1..NumQueues

\* The (num_retries, next_attempt_after) an operation may carry when it is
\* pushed: never attempted, or waiting for one of two instants.
Attempts ==
    {[num_retries |-> 0, next_attempt_after |-> None]}
        \cup {[num_retries |-> 1, next_attempt_after |-> Some(t)] : t \in 1..MaxInstant}

\* A pending operation of the message with nonce i. `reset_from` records the
\* next_attempt_after the operation had when a retry request first reset its
\* attempts since it was pushed; None while no request has.
QueueOperation(i, a) ==
    [id |-> i, nonce |-> i, num_retries |-> a.num_retries,
     next_attempt_after |-> a.next_attempt_after, reset_from |-> None]

\* Ord for QueueOperation
cmp(a, b) ==
    IF IsSome(a.next_attempt_after) /\ IsSome(b.next_attempt_after)
    THEN IF Unwrap(a.next_attempt_after) < Unwrap(b.next_attempt_after) THEN "Less"
         ELSE IF Unwrap(a.next_attempt_after) > Unwrap(b.next_attempt_after) THEN "Greater"
         ELSE "Equal"
    ELSE IF IsSome(a.next_attempt_after) THEN "Greater"
    ELSE IF IsSome(b.next_attempt_after) THEN "Less"
    ELSE IF a.nonce < b.nonce THEN "Less"
    ELSE IF a.nonce > b.nonce THEN "Greater"
    ELSE "Equal"

\* A heap of the operations themselves, without Reverse.
heap_cmp_Unreversed(a, b) == cmp(a, b)

\* The order of the heap elements: Reverse<QueueOperation>
heap_cmp(a, b) == cmp(b, a)

\* BinaryHeap::pop: the elements that may come out, the greatest of the heap.
BinaryHeap_pop(heap) == {e \in heap : \A o \in heap : heap_cmp(e, o) # "Less"}

\* PendingOperation::reset_attempts, as PendingMessage implements it
op_reset_attempts(e) == [e EXCEPT !.num_retries = 0, !.next_attempt_after = None]

\* Retry requests are drained and then ignored.
process_retry_requests_NoReset(heap, message_ids) == heap

\* A retry request resets the attempts of every operation of the heap.
process_retry_requests_ResetsAll(heap, message_ids) ==
    IF message_ids = {}
    THEN heap
    ELSE {[op_reset_attempts(e) EXCEPT
              !.reset_from = IF IsSome(@) THEN @ ELSE Some(e.next_attempt_after)] : e \in heap}

\* OpQueue::process_retry_requests, given the ids drained from retry_rx
process_retry_requests(heap, message_ids) ==
    IF message_ids = {}
    THEN heap
    ELSE {IF e.id \in message_ids
          THEN [op_reset_attempts(e) EXCEPT
                   !.reset_from = IF IsSome(@) THEN @ ELSE Some(e.next_attempt_after)]
          ELSE e : e \in heap}

InQueue(i) == \E q \in Queues : \E e \in oq_heap[q] : e.id = i

\* OpQueue::push
Push ==
    /\ \E q \in Queues, i \in OpIds, a \in Attempts :
          /\ ~InQueue(i)
          /\ oq_heap' = [oq_heap EXCEPT ![q] = @ \cup {QueueOperation(i, a)}]
          /\ oq_ret' = [call |-> "push", queue |-> q, op |-> None]
    /\ UNCHANGED oq_rx
    /\ UNCHANGED otherThanOpQueue

\* A message id is sent on the retry channel: every receiver gets it.
SendRetry ==
    /\ \E i \in OpIds :
          /\ \E q \in Queues : i \notin oq_rx[q]
          /\ oq_rx' = [q \in Queues |-> oq_rx[q] \cup {i}]
    /\ UNCHANGED <<oq_heap, oq_ret>>
    /\ UNCHANGED otherThanOpQueue

\* OpQueue::pop
Pop ==
    /\ \E q \in Queues :
          LET queue == process_retry_requests(oq_heap[q], oq_rx[q])
          IN  /\ oq_rx' = [oq_rx EXCEPT ![q] = {}]
              /\ IF queue = {}
                 THEN /\ oq_heap' = [oq_heap EXCEPT ![q] = queue]
                      /\ oq_ret' = [call |-> "pop", queue |-> q, op |-> None]
                 ELSE \E op \in BinaryHeap_pop(queue) :
                         /\ oq_heap' = [oq_heap EXCEPT ![q] = queue \ {op}]
                         /\ oq_ret' = [call |-> "pop", queue |-> q, op |-> Some(op)]
    /\ UNCHANGED otherThanOpQueue

\* The queues are created empty, each with its own receiver of the channel.
InitOpQueue ==
    /\ oq_heap = [q \in Queues |-> {}]
    /\ oq_rx = [q \in Queues |-> {}]
    /\ oq_ret = [call |-> "none", queue |-> 0, op |-> None]

NextOpQueue == Push \/ SendRetry \/ Pop

OpQueueInit ==
    /\ InitOpQueue /\ IdlePM /\ IdleCursor /\ IdleMultisig /\ IdleValidator
    /\ IdleRunAll /\ IdleBackoff /\ IdleGcs /\ IdleRetrying /\ IdleAggregation /\ IdleMetadata /\ IdleBackward /\ IdleRetryCall /\ IdleSequenceAware /\ IdleRateLimited /\ IdleGauge

SpecOpQueue == OpQueueInit /\ [][NextOpQueue]_vars

-----------------------------------------------------------------------------
(*                    GCS CHECKPOINT STORAGE                               *)
(*            rust/hyperlane-base/src/types/gcs_storage.rs                 *)

\* Bound: checkpoints of index 0..MaxGcsIndex are written to the bucket.
MaxGcsIndex == 2

GcsIndices == 0..MaxGcsIndex

\* Object name of the latest-index object.
LATEST_INDEX_KEY == <<"gcsLatestIndexKey">>

\* format!("checkpoint_{index}_with_id.json")
get_checkpoint_key(index) == <<"checkpoint", index, "with_id.json">>

GcsKeys == {LATEST_INDEX_KEY} \cup {get_checkpoint_key(i) : i \in GcsIndices}

\* The signed checkpoints a validator may write: an index and the root it signs.
GcsCheckpoints == [index : GcsIndices, root : Roots]

\* serde_json::to_vec of a u32 and of a SignedCheckpointWithMessageId.
to_vec_u32(index) == <<"json", "u32", index>>

to_vec_checkpoint(signed_checkpoint) == <<"json", "checkpoint", signed_checkpoint>>

\* serde_json::from_slice: fails when the bytes do not hold the wanted type.
from_slice_u32(data) == IF data[2] = "u32" THEN Ok(data[3]) ELSE Err

from_slice_checkpoint(data) == IF data[2] = "checkpoint" THEN Ok(data[3]) ELSE Err

\* The ObjectError variants of the storage library the client tells apart:
\* InvalidName, and every other one.
ObjectErrors == {"InvalidName", "Failure"}

\* What the storage service does with one request: whether the request fails
\* on the way, and which ObjectError it reports for an object that does not
\* exist (the code relies on InvalidName; the library is free to report
\* another variant).
GcsAnswers == [fails : BOOLEAN, missing : ObjectErrors]

ObjectErr(e) == [ok |-> FALSE, e |-> e]

\* inner.get_object(bucket, key)
get_object(bucket, key, a) ==
    IF a.fails THEN ObjectErr("Failure")
    ELSE IF IsSome(bucket[key]) THEN Ok(Unwrap(bucket[key]))
    ELSE ObjectErr(a.missing)

\* inner.insert_object(bucket, key, data): the outcome and the bucket after it.
insert_object(bucket, key, data, a) ==
    IF a.fails THEN [ret |-> Err, bucket |-> bucket]
    ELSE [ret |-> Ok("unit"), bucket |-> [bucket EXCEPT ![key] = Some(data)]]

\* GcsStorageClient::latest_index
GcsStorageClient_latest_index(bucket, a) ==
    LET got == get_object(bucket, LATEST_INDEX_KEY, a)
    IN  IF got.ok
        THEN LET parsed == from_slice_u32(got.v)
             IN  IF parsed.ok THEN Ok(Some(parsed.v)) ELSE Err
        ELSE IF got.e = "InvalidName" THEN Ok(None) ELSE Err

\* GcsStorageClient::write_latest_index
GcsStorageClient_write_latest_index(bucket, index, a) ==
    insert_object(bucket, LATEST_INDEX_KEY, to_vec_u32(index), a)

\* GcsStorageClient::update_latest_index: a1 answers the read, a2 the write.
GcsStorageClient_update_latest_index(bucket, index, a1, a2) ==
    LET read == GcsStorageClient_latest_index(bucket, a1)
    IN  IF ~read.ok THEN [ret |-> Err, bucket |-> bucket]
        ELSE LET curr == IF IsSome(read.v) THEN Unwrap(read.v) ELSE 0
             IN  IF index > curr
                 THEN GcsStorageClient_write_latest_index(bucket, index, a2)
                 ELSE [ret |-> Ok("unit"), bucket |-> bucket]

\* GcsStorageClient::fetch_checkpoint
GcsStorageClient_fetch_checkpoint(bucket, index, a) ==
    LET res == get_object(bucket, get_checkpoint_key(index), a)
    IN  IF ~res.ok THEN Err
        ELSE LET scwmi == from_slice_checkpoint(res.v)
             IN  IF scwmi.ok THEN Ok(Some(scwmi.v)) ELSE Err

\* GcsStorageClient::write_checkpoint
GcsStorageClient_write_checkpoint(bucket, signed_checkpoint, a) ==
    insert_object(bucket, get_checkpoint_key(signed_checkpoint.index),
                  to_vec_checkpoint(signed_checkpoint), a)

\* A call of the client, as recorded in gcs_call: the method, its index
\* argument (None for latest_index), whether a request of the call failed on
\* the way, and what the call returned.
GcsCall(fn, index, fails, ret) ==
    [fn |-> fn, index |-> index, fails |-> fails, ret |-> ret]

\* A fresh bucket, no call made yet.
InitGcs ==
    /\ gcs_bucket = [k \in GcsKeys |-> None]
    /\ gcs_call = NoCall

LatestIndexCall ==
    \E a \in GcsAnswers :
        /\ gcs_call' = GcsCall("latest_index", None, a.fails,
                               GcsStorageClient_latest_index(gcs_bucket, a))
        /\ UNCHANGED gcs_bucket
        /\ UNCHANGED otherThanGcs

UpdateLatestIndexCall ==
    \E index \in GcsIndices, a1 \in GcsAnswers, a2 \in GcsAnswers :
        LET out == GcsStorageClient_update_latest_index(gcs_bucket, index, a1, a2)
        IN  /\ gcs_bucket' = out.bucket
            /\ gcs_call' = GcsCall("update_latest_index", Some(index),
                                   a1.fails \/ a2.fails, out.ret)
            /\ UNCHANGED otherThanGcs

FetchCheckpointCall ==
    \E index \in GcsIndices, a \in GcsAnswers :
        /\ gcs_call' = GcsCall("fetch_checkpoint", Some(index), a.fails,
                               GcsStorageClient_fetch_checkpoint(gcs_bucket, index, a))
        /\ UNCHANGED gcs_bucket
        /\ UNCHANGED otherThanGcs

WriteCheckpointCall ==
    \E signed_checkpoint \in GcsCheckpoints, a \in GcsAnswers :
        LET out == GcsStorageClient_write_checkpoint(gcs_bucket, signed_checkpoint, a)
        IN  /\ gcs_bucket' = out.bucket
            /\ gcs_call' = GcsCall("write_checkpoint", Some(signed_checkpoint.index),
                                   a.fails, out.ret)
            /\ UNCHANGED otherThanGcs

NextGcs ==
    \/ LatestIndexCall
    \/ UpdateLatestIndexCall
    \/ FetchCheckpointCall
    \/ WriteCheckpointCall

GcsInit ==
    /\ InitGcs /\ IdlePM /\ IdleCursor /\ IdleMultisig /\ IdleValidator
    /\ IdleRunAll /\ IdleBackoff /\ IdleOpQueue /\ IdleRetrying /\ IdleAggregation /\ IdleMetadata /\ IdleBackward /\ IdleRetryCall /\ IdleSequenceAware /\ IdleRateLimited /\ IdleGauge

SpecGcs == GcsInit /\ [][NextGcs]_vars

-----------------------------------------------------------------------------
(*                    RETRYING PROVIDER                                    *)
(*          rust/chains/abacus-ethereum/src/retrying.rs                    *)

METHODS_TO_NOT_RETRY == {"eth_estimateGas", "eth_sendTransaction", "eth_sendRawTransaction"}

\* The methods requested: the listed ones and two that are not listed.
Methods == METHODS_TO_NOT_RETRY \cup {"eth_blockNumber", "eth_getLogs"}

\* Bound: providers are built with max_requests in 1..MaxMaxRequests.
MaxMaxRequests == 6

\* RetryingProvider::from_str builds the provider with Self::new(_, 6, 50).
DefaultMaxRequests == 6

DefaultBaseRetryMs == 50

BaseRetryMs == {1, DefaultBaseRetryMs}

\* What the inner Http provider answers to one request: a response, or one of
\* the three HttpClientError variants.
HttpAnswers == {"Ok", "ReqwestError", "JsonRpcError", "SerdeJson"}

HttpClientErrors == HttpAnswers \ {"Ok"}

RECURSIVE pow2(_)
pow2(n) == IF n = 0 THEN 1 ELSE 2 * pow2(n - 1)

\* The matcher closure of RetryingProvider<Http>::request, with JSON-RPC
\* errors retried for every method.
request_matcher_RetriesAll(method, res) ==
    IF res = "Ok" THEN [handle |-> "Accept"]
    ELSE [handle |-> "Retry", e |-> res]

\* The matcher closure of RetryingProvider<Http>::request.
request_matcher(method, res) ==
    CASE res = "Ok" -> [handle |-> "Accept"]
      [] res = "ReqwestError" -> [handle |-> "Retry", e |-> res]
      [] res = "JsonRpcError" ->
            IF method \in METHODS_TO_NOT_RETRY
            THEN [handle |-> "Error", e |-> res]
            ELSE [handle |-> "Retry", e |-> res]
      [] res = "SerdeJson" -> [handle |-> "Retry", e |-> res]

\* RetryingProviderError
JsonRpcClientError(e) == [ok |-> FALSE, err |-> "JsonRpcClientError", e |-> e]

MaxRequests(e) == [ok |-> FALSE, err |-> "MaxRequests", e |-> e]

\* RetryingProvider::new, and request called with a method: the loop of
\* request_with_retry is about to issue its first request.
InitRetrying ==
    /\ rp_method \in Methods
    /\ rp_max_requests \in 1..MaxMaxRequests
    /\ rp_base_retry_ms \in BaseRetryMs
    /\ rp_i = 1
    /\ rp_last_err = None
    /\ rp_answers = << >>
    /\ rp_sleeps = << >>
    /\ rp_result = None

\* One iteration of the loop of request_with_retry: the request goes to the
\* inner provider, the matcher decides, and the loop returns or sleeps.
RequestAttempt ==
    /\ rp_result = None
    /\ rp_i \in 1..rp_max_requests
    /\ \E res \in HttpAnswers :
          LET backoff_ms == rp_base_retry_ms * pow2(rp_i - 1)
              handled == request_matcher(rp_method, res)
          IN  /\ rp_answers' = Append(rp_answers, res)
              /\ CASE handled.handle = "Accept" ->
                        /\ rp_result' = Some(Ok("response"))
                        /\ UNCHANGED <<rp_i, rp_last_err, rp_sleeps>>
                   [] handled.handle = "Error" ->
                        /\ rp_result' = Some(JsonRpcClientError(handled.e))
                        /\ UNCHANGED <<rp_i, rp_last_err, rp_sleeps>>
                   [] handled.handle = "Retry" ->
                        /\ rp_last_err' = Some(handled.e)
                        /\ rp_i' = rp_i + 1
                        /\ IF rp_i + 1 <= rp_max_requests
                           THEN /\ rp_sleeps' = Append(rp_sleeps, backoff_ms)
                                /\ UNCHANGED rp_result
                           ELSE /\ rp_result' = Some(MaxRequests(handled.e))
                                /\ UNCHANGED rp_sleeps
    /\ UNCHANGED <<rp_method, rp_max_requests, rp_base_retry_ms>>
    /\ UNCHANGED otherThanRetrying

NextRetrying == RequestAttempt

RetryingInit ==
    /\ InitRetrying /\ IdlePM /\ IdleCursor /\ IdleMultisig /\ IdleValidator
    /\ IdleRunAll /\ IdleBackoff /\ IdleOpQueue /\ IdleGcs /\ IdleAggregation /\ IdleMetadata /\ IdleBackward /\ IdleRetryCall /\ IdleSequenceAware /\ IdleRateLimited /\ IdleGauge

SpecRetrying == RetryingInit /\ [][NextRetrying]_vars

-----------------------------------------------------------------------------
(*                    AGGREGATION ISM METADATA                             *)
(*        rust/agents/relayer/src/msg/metadata/aggregation.rs              *)

\* Bytes used to store one member of the (start, end) range tuple.
METADATA_RANGE_SIZE == 4

\* Bound: an aggregation ISM declares at most MaxModules sub-ISMs.
MaxModules == 3

\* The metadata a sub-ISM's builder may produce, as byte strings.
SubMetadatas == {<< >>, <<1>>, <<255, 2>>, <<3, 4, 5>>}

\* What self.base.build returns for one sub-ISM: an error, Ok(None), or
\* Ok(Some(metadata)).
SubResults == {Err, Ok(None)} \cup {Ok(Some(m)) : m \in SubMetadatas}

\* (i as u32).to_be_bytes()
encode_byte_index(i) ==
    <<(i \div 16777216) % 256, (i \div 65536) % 256, (i \div 256) % 256, i % 256>>

\* vec![0; n]
Zeros(n) == [k \in 1..n |-> 0]

\* buffer.splice(from..to, replacement)
splice(buffer, from, to, replacement) ==
    SubSeq(buffer, 1, from) \o replacement \o SubSeq(buffer, to + 1, Len(buffer))

\* The loop of format_metadata from position index (counted from 0) on.
RECURSIVE format_metadata_loop(_, _, _)
format_metadata_loop(metadatas, index, buffer) ==
    IF index = Len(metadatas) THEN buffer
    ELSE LET range_start == Len(buffer)
             appended == buffer \o metadatas[index + 1]
             range_end == Len(appended)
             encoded_range_start == METADATA_RANGE_SIZE * 2 * index
         IN  format_metadata_loop(metadatas, index + 1,
                 splice(appended, encoded_range_start,
                        encoded_range_start + METADATA_RANGE_SIZE * 2,
                        encode_byte_index(range_start) \o encode_byte_index(range_end)))

\* AggregationIsmMetadataBuilder::format_metadata
format_metadata(metadatas) ==
    format_metadata_loop(metadatas, 0, Zeros(METADATA_RANGE_SIZE * 2 * Len(metadatas)))

\* metadatas.into_iter().filter_map(|m| m.ok().and_then(|meta| meta)).collect()
RECURSIVE filter_map_ok_and_then(_)
filter_map_ok_and_then(metadatas) ==
    IF metadatas = << >> THEN << >>
    ELSE LET m == Head(metadatas)
             rest == filter_map_ok_and_then(Tail(metadatas))
         IN  IF m.ok /\ IsSome(m.v) THEN <<Unwrap(m.v)>> \o rest ELSE rest

\* AggregationIsmMetadataBuilder::build, given whether the ISM's modules and
\* threshold could be fetched and what building each sub-ISM returned.
AggregationIsmMetadataBuilder_build(fetched, metadatas, threshold) ==
    IF ~fetched THEN Err
    ELSE LET filtered_metadatas == filter_map_ok_and_then(metadatas)
         IN  IF Len(filtered_metadatas) < threshold
             THEN Ok(None)
             ELSE Ok(Some(format_metadata(filtered_metadatas)))

\* An aggregation ISM with its declared sub-ISMs and threshold, and what the
\* build of each sub-ISM's metadata returns; build has not run yet.
InitAggregation ==
    /\ ag_metadatas \in UNION {[1..n -> SubResults] : n \in 0..MaxModules}
    /\ ag_threshold \in 0..MaxModules
    /\ ag_result = None

AggregationBuild ==
    /\ ag_result = None
    /\ \E fetched \in BOOLEAN :
          ag_result' = Some(AggregationIsmMetadataBuilder_build(fetched, ag_metadatas, ag_threshold))
    /\ UNCHANGED <<ag_metadatas, ag_threshold>>
    /\ UNCHANGED otherThanAggregation

NextAggregation == AggregationBuild

AggregationInit ==
    /\ InitAggregation /\ IdlePM /\ IdleCursor /\ IdleMultisig /\ IdleValidator
    /\ IdleRunAll /\ IdleBackoff /\ IdleOpQueue /\ IdleGcs /\ IdleRetrying /\ IdleMetadata /\ IdleBackward /\ IdleRetryCall /\ IdleSequenceAware /\ IdleRateLimited /\ IdleGauge

SpecAggregation == AggregationInit /\ [][NextAggregation]_vars

-----------------------------------------------------------------------------
(*                    RECURSIVE METADATA BUILDER                           *)
(*          rust/agents/relayer/src/msg/metadata/base.rs                   *)

\* Bound: NumIsms ISMs are deployed on the destination.
NumIsms == 2

\* Bound: builders are made with max_depth in 0..MaxMaxDepth.
MaxMaxDepth == 5

Isms == 1..NumIsms

\* SupportedIsmTypes, by the module type number the ISM reports.
Routing == 1

LegacyMultisig == 3

Multisig == 4

\* The module types ISMs report: the supported ones and one that is not.
ModuleTypes == {Routing, 2, LegacyMultisig, Multisig}

\* SupportedIsmTypes::from_u8
SupportedIsmTypes_from_u8(module_type) ==
    IF module_type \in {Routing, LegacyMultisig, Multisig} THEN Some(module_type) ELSE None

\* MetadataBuilderError
UnsupportedModuleType(t) == [ok |-> FALSE, err |-> "UnsupportedModuleType", arg |-> t]

MaxDepthExceeded(d) == [ok |-> FALSE, err |-> "MaxDepthExceeded", arg |-> d]

\* clone_with_incremented_depth without the comparison against max_depth.
clone_with_incremented_depth_Unchecked(depth, max_depth) ==
    Ok(depth + 1)

\* BaseMetadataBuilder::clone_with_incremented_depth: the depth of the clone,
\* or MaxDepthExceeded.
clone_with_incremented_depth(depth, max_depth) ==
    IF depth + 1 > max_depth THEN MaxDepthExceeded(depth + 1) ELSE Ok(depth + 1)

\* What a multisig metadata builder returns: an error, Ok(None), or metadata.
MultisigResults == {Err, Ok(None), Ok(Some("metadata"))}

\* The ISMs of the destination, a builder of depth 0 and the ISM of the
\* recipient: build is about to be called.
InitMetadata ==
    /\ md_isms \in [Isms -> [module_type : ModuleTypes, route : Isms]]
    /\ md_ism \in Isms
    /\ md_depth = 0
    /\ md_max_depth \in 0..MaxMaxDepth
    /\ md_path = << >>
    /\ md_result = None

\* One call of BaseMetadataBuilder::build, for md_ism, on the builder of depth
\* md_depth. A multisig builder returns its result, which every enclosing
\* build returns unchanged; a routing builder asks the ISM for the ISM to use
\* and calls build for it on the builder it was given.
BaseBuild ==
    /\ md_result = None
    /\ md_depth <= MaxMaxDepth + 1
    /\ \E fetched \in BOOLEAN, routed \in BOOLEAN, leaf \in MultisigResults :
          LET module_type == md_isms[md_ism].module_type
              supported_type == SupportedIsmTypes_from_u8(module_type)
              base == clone_with_incremented_depth(md_depth, md_max_depth)
          IN  IF ~fetched
              THEN /\ md_result' = Some(Err)
                   /\ UNCHANGED <<md_ism, md_depth, md_path>>
              ELSE IF supported_type = None
              THEN /\ md_result' = Some(UnsupportedModuleType(module_type))
                   /\ UNCHANGED <<md_ism, md_depth, md_path>>
              ELSE IF ~base.ok
              THEN /\ md_result' = Some(base)
                   /\ UNCHANGED <<md_ism, md_depth, md_path>>
              ELSE /\ md_path' = Append(md_path, md_ism)
                   /\ IF Unwrap(supported_type) = Routing
                      THEN IF routed
                           THEN /\ md_ism' = md_isms[md_ism].route
                                /\ md_depth' = base.v
                                /\ UNCHANGED md_result
                           ELSE /\ md_result' = Some(Err)
                                /\ UNCHANGED <<md_ism, md_depth>>
                      ELSE /\ md_result' = Some(leaf)
                           /\ UNCHANGED <<md_ism, md_depth>>
    /\ UNCHANGED <<md_isms, md_max_depth>>
    /\ UNCHANGED otherThanMetadata

NextMetadata == BaseBuild

MetadataInit ==
    /\ InitMetadata /\ IdlePM /\ IdleCursor /\ IdleMultisig /\ IdleValidator
    /\ IdleRunAll /\ IdleBackoff /\ IdleOpQueue /\ IdleGcs /\ IdleRetrying /\ IdleAggregation /\ IdleBackward /\ IdleRetryCall /\ IdleSequenceAware /\ IdleRateLimited /\ IdleGauge

\* The build future is polled until it completes.
FairSpecMetadata == MetadataInit /\ [][NextMetadata]_vars /\ WF_vars(NextMetadata)

-----------------------------------------------------------------------------
(*                  BACKWARD SEQUENCE SYNC CURSOR                          *)
(*         rust/hyperlane-base/src/contract_sync/cursor.rs                 *)

\* SyncState::block_range, SyncDirection::Backward
block_range_Backward(s) ==
    LET to == s.next_block
        from == saturating_sub(to, s.chunk_size)
    IN  [s |-> [s EXCEPT !.next_block = saturating_sub(from, 1)],
         range |-> RangeInclusive(from, to)]

\* SyncState::sequence_range, SyncDirection::Backward
sequence_range_Backward(s) ==
    LET sequence_end == s.next_sequence
        sequence_start == saturating_sub(sequence_end, MAX_SEQUENCE_RANGE)
    IN  [s |-> [s EXCEPT !.next_sequence = saturating_sub(sequence_start, 1)],
         range |-> RangeInclusive(sequence_start, sequence_end)]

\* SyncState::get_next_range for SyncDirection::Backward: the state after the
\* call, the range (None when there is none) and whether the call failed.
SyncState_get_next_range_Backward(s, max_sequence) ==
    IF s.mode = "Sequence" /\ ~IsSome(max_sequence)
    THEN [s |-> s, range |-> None, failed |-> TRUE]
    ELSE LET r == IF s.mode = "Block" THEN block_range_Backward(s)
                  ELSE sequence_range_Backward(s)
         IN  IF range_is_empty(r.range)
             THEN [s |-> r.s, range |-> None, failed |-> FALSE]
             ELSE [s |-> r.s, range |-> Some(r.range), failed |-> FALSE]

\* The loop at the head of BackwardSequenceSyncCursor::get_next_range, entered
\* with synced false: the state and the value of synced it leaves.
RECURSIVE RewindLoop(_, _)
RewindLoop(s, db) ==
    IF ~IsSome(retrieve_by_sequence(db, s.next_sequence))
    THEN [s |-> s, synced |-> FALSE]
    ELSE IF s.next_sequence = 0 \/ s.next_block = 0
    THEN [s |-> s, synced |-> TRUE]
    ELSE LET block_number == retrieve_log_block_number(db, s.next_sequence)
             s1 == IF IsSome(block_number)
                   THEN [s EXCEPT !.next_block = Unwrap(block_number)]
                   ELSE s
         IN  RewindLoop([s1 EXCEPT !.next_sequence = saturating_sub(@, 1)], db)

\* A get_next_range that never looks at synced after the loop.
BackwardSequenceSyncCursor_get_next_range_IgnoresSynced(s, synced, db, answer) ==
    LET r == IF synced THEN [s |-> s, synced |-> TRUE] ELSE RewindLoop(s, db)
    IN  IF ~answer.ok
        THEN [s |-> r.s, synced |-> r.synced, range |-> None, failed |-> TRUE]
        ELSE LET out == SyncState_get_next_range_Backward(r.s, answer.v.count)
             IN  [s |-> out.s, synced |-> r.synced, range |-> out.range,
                  failed |-> out.failed]

\* BackwardSequenceSyncCursor::get_next_range
BackwardSequenceSyncCursor_get_next_range(s, synced, db, answer) ==
    LET r == IF synced THEN [s |-> s, synced |-> TRUE] ELSE RewindLoop(s, db)
    IN  IF r.synced
        THEN [s |-> r.s, synced |-> TRUE, range |-> None, failed |-> FALSE]
        ELSE IF ~answer.ok
        THEN [s |-> r.s, synced |-> FALSE, range |-> None, failed |-> TRUE]
        ELSE LET out == SyncState_get_next_range_Backward(r.s, answer.v.count)
             IN  [s |-> out.s, synced |-> FALSE, range |-> out.range,
                  failed |-> out.failed]

\* BackwardSequenceSyncCursor::update
BackwardSequenceSyncCursor_update(s, db, logs) ==
    LET prev_sequence == s.next_sequence + 1
        filtered_logs == {m \in logs : m <= s.next_sequence}
    IN  SequenceSyncCursor_update(s, db, filtered_logs, prev_sequence)

\* The chains a cursor may be built on: the blocks the messages were
\* dispatched in, in order of sequence.
DispatchHistories ==
    {d \in UNION {[1..n -> 0..MaxTip] : n \in 0..MaxCount} :
        \A k \in 1..(Len(d) - 1) : d[k] <= d[k + 1]}

\* ForwardBackwardSequenceSyncCursor::new: the backward cursor starts one
\* below the count and at the tip that sequence_and_tip() reports, synced when
\* the count is 0. The store may hold logs of earlier runs.
InitBackward ==
    /\ dispatched \in DispatchHistories
    /\ tip \in 0..MaxTip
    /\ \A k \in 1..Len(dispatched) : dispatched[k] <= tip
    /\ \E chunk_size \in 1..MaxChunk, mode \in IndexModes :
          sync_state = ForwardSequenceSyncCursor_new(chunk_size, tip, tip, mode,
                                                     saturating_sub(Len(dispatched), 1))
    /\ bw_synced = (Len(dispatched) = 0)
    /\ initial_sequence = Len(dispatched)
    /\ db_logs \in {db \in [0..(MaxCount - 1) -> {None} \cup {Some(b) : b \in 0..MaxTip}] :
                       \A q \in 0..(MaxCount - 1) :
                           IsSome(db[q]) => /\ q < Len(dispatched)
                                            /\ db[q] = Some(dispatched[q + 1])}
    /\ reliable \in BOOLEAN
    /\ cursor_action = Sleep
    /\ update_logs = None

\* One turn of the sync loop that reaches the backward cursor: its
\* get_next_range decides between a query and a sleep.
BackwardNextAction ==
    /\ cursor_action.kind = "Sleep"
    /\ \E answer \in SequenceAndTipAnswers :
          LET out == BackwardSequenceSyncCursor_get_next_range(sync_state, bw_synced,
                                                               db_logs, answer)
          IN  /\ sync_state' = out.s
              /\ bw_synced' = out.synced
              /\ cursor_action' = IF IsSome(out.range) THEN Query(Unwrap(out.range))
                                  ELSE Sleep
    /\ update_logs' = None
    /\ UNCHANGED <<db_logs, dispatched, tip, reliable, initial_sequence>>
    /\ UNCHANGED otherThanBackward

\* One turn of the sync loop after CursorAction::Query(range) of the backward
\* cursor: fetch the logs of the range, store them, and hand them to update.
BackwardQueryRange ==
    /\ cursor_action.kind = "Query"
    /\ \E logs \in FetchAnswers(cursor_action.range) :
          /\ db_logs' = store_logs(db_logs, logs)
          /\ sync_state' = BackwardSequenceSyncCursor_update(sync_state, db_logs', logs)
          /\ update_logs' = Some(logs)
    /\ cursor_action' = Sleep
    /\ UNCHANGED <<dispatched, tip, reliable, initial_sequence, bw_synced>>
    /\ UNCHANGED otherThanBackward

NextBackward == BackwardNextAction \/ BackwardQueryRange

BackwardInit ==
    /\ InitBackward /\ IdlePM /\ IdleMultisig /\ IdleValidator
    /\ IdleRunAll /\ IdleBackoff /\ IdleOpQueue /\ IdleGcs /\ IdleRetrying /\ IdleAggregation /\ IdleMetadata /\ IdleRetryCall /\ IdleSequenceAware /\ IdleRateLimited /\ IdleGauge

SpecBackward == BackwardInit /\ [][NextBackward]_vars

-----------------------------------------------------------------------------
(*                    RETRIED CALLS                                        *)

MaxN == 11

DEFAULT_MAX_RPC_RETRIES == 10

\* The range of the loop `for retry_number in 1..n`: the upper end is excluded.
RetryNumbers(n) == 1..(n - 1)

\* What the call of f numbered `call` returns, for an f that first succeeds at
\* its call number first_ok.
f(call, first_ok) == IF call = first_ok THEN Ok(call) ELSE Err

\* A call of call_and_retry_n_times(f, n) or of call_with_retry(f) is entered;
\* f fails until some call of it succeeds, or fails forever.
InitRetryCall ==
    /\ rc_fn \in {"call_and_retry_n_times", "call_with_retry"}
    /\ rc_n \in IF rc_fn = "call_with_retry" THEN {DEFAULT_MAX_RPC_RETRIES} ELSE 0..MaxN
    /\ rc_first_ok \in 0..MaxN
    /\ rc_retry_number = 1
    /\ rc_calls = 0
    /\ rc_ret = None

\* One iteration of the loop: f is called; Ok is returned, an error is
\* followed by the sleep and the next iteration.
RetryIteration ==
    /\ rc_fn # "none"
    /\ rc_ret = None
    /\ rc_retry_number \in RetryNumbers(rc_n)
    /\ rc_calls' = rc_calls + 1
    /\ LET res == f(rc_calls + 1, rc_first_ok)
       IN  IF res.ok
           THEN /\ rc_ret' = Some(res)
                /\ UNCHANGED rc_retry_number
           ELSE /\ rc_retry_number' = rc_retry_number + 1
                /\ UNCHANGED rc_ret
    /\ UNCHANGED <<rc_fn, rc_n, rc_first_ok>>
    /\ UNCHANGED otherThanRetryCall

\* The loop is over: Err(CustomError("Retrying call failed"))
RetryGivesUp ==
    /\ rc_fn # "none"
    /\ rc_ret = None
    /\ rc_retry_number \notin RetryNumbers(rc_n)
    /\ rc_ret' = Some(Err)
    /\ UNCHANGED <<rc_fn, rc_n, rc_first_ok, rc_retry_number, rc_calls>>
    /\ UNCHANGED otherThanRetryCall

NextRetryCall == RetryIteration \/ RetryGivesUp

RetryCallInit ==
    /\ InitRetryCall /\ IdlePM /\ IdleCursor /\ IdleMultisig /\ IdleValidator
    /\ IdleRunAll /\ IdleBackoff /\ IdleOpQueue /\ IdleGcs /\ IdleRetrying /\ IdleAggregation /\ IdleMetadata /\ IdleBackward /\ IdleSequenceAware /\ IdleRateLimited /\ IdleGauge

SpecRetryCall == RetryCallInit /\ [][NextRetryCall]_vars

-----------------------------------------------------------------------------
(*                    SEQUENCE-AWARE FORWARD CURSOR                        *)

MaxSeq == 3
MaxLogs == 3

SequenceAwareSyncTarget(sequence, at_block) == [sequence |-> sequence, at_block |-> at_block]

\* SequenceAwareSyncTarget::next
SequenceAwareSyncTarget_next(t) == SequenceAwareSyncTarget(t.sequence + 1, t.at_block + 1)

\* The log of the message with a sequence and its LogMeta.block_number: the
\* message with sequence q is dispatched in block q + 1.
SequencedLog(q) == [sequence |-> q, block_number |-> q + 1]

\* The vectors of logs an indexer may hand over: any order, with duplicates.
LogVectors == UNION {[1..n -> {SequencedLog(q) : q \in 0..MaxSeq}] : n \in 0..MaxLogs}

\* What latest_sequence_and_tip() may answer.
LatestSequenceAndTipAnswers ==
    {[count |-> c, tip |-> t] : c \in {None} \cup {Some(n) : n \in 0..(MaxSeq + 1)},
                               t \in {1, MaxTip}}

\* logs.sort_by(|a, b| a.0.sequence().cmp(&b.0.sequence()))
sort_by_sequence(logs) == sort_by_key(logs, [k \in 1..Len(logs) |-> logs[k].sequence])

\* logs.dedup_by(|a, b| a.0.sequence() == b.0.sequence()): of consecutive
\* logs with the same sequence the first is kept.
RECURSIVE dedup_by_sequence(_)
dedup_by_sequence(logs) ==
    IF Len(logs) <= 1 THEN logs
    ELSE LET init == dedup_by_sequence(SubSeq(logs, 1, Len(logs) - 1))
             last == logs[Len(logs)]
         IN  IF init[Len(init)].sequence = last.sequence THEN init ELSE Append(init, last)

\* sequences_missing_from_range: logs.get(i as usize) is the log at the
\* 0-based position i of the vector.
sequences_missing_from_range(logs, range) ==
    LET missing == {i \in range.from..range.to :
                       IF i < Len(logs)
                       THEN logs[i + 1].sequence # i
                       ELSE TRUE}
    IN  IF missing # {} THEN Some(missing) ELSE None

\* ForwardSequenceAwareSyncCursorNew::get_next_range
ForwardSequenceAware_get_next_range(c, answer) ==
    IF ~IsSome(answer.count)
    THEN [c |-> c, range |-> None]
    ELSE LET onchain_sequence_count == Unwrap(answer.count)
             cursor_count == c.last_checkpoint.sequence
         IN  IF cursor_count < onchain_sequence_count
             THEN [c |-> [c EXCEPT !.target =
                              Some(SequenceAwareSyncTarget(onchain_sequence_count, answer.tip))],
                   range |->
                      IF c.index_mode = "Block"
                      THEN Some(RangeInclusive(c.current_checkpoint.at_block,
                                               Min(c.current_checkpoint.at_block + c.chunk_size,
                                                   answer.tip)))
                      ELSE Some(RangeInclusive(cursor_count,
                                               Min(onchain_sequence_count,
                                                   cursor_count + MAX_SEQUENCE_RANGE)))]
             ELSE [c |-> c, range |-> None]

\* ForwardSequenceAwareSyncCursorNew::update. `rewound` tells whether the
\* call took a branch that rewinds to the last checkpoint.
ForwardSequenceAware_update(c, unsorted, range) ==
    LET logs == dedup_by_sequence(sort_by_sequence(unsorted))
        rewind == [c EXCEPT !.current_checkpoint = c.last_checkpoint]
        last_log == logs[Len(logs)]
        reached == SequenceAwareSyncTarget(last_log.sequence, last_log.block_number)
    IN  IF c.index_mode = "Sequence"
        THEN IF IsSome(sequences_missing_from_range(logs, range))
             THEN [c |-> rewind, res |-> "Ok", rewound |-> TRUE]
             ELSE IF logs # << >>
             THEN [c |-> [c EXCEPT !.last_checkpoint = reached,
                                   !.current_checkpoint = SequenceAwareSyncTarget_next(reached),
                                   !.target = None],
                   res |-> "Ok", rewound |-> FALSE]
             ELSE [c |-> c, res |-> "Ok", rewound |-> FALSE]
        ELSE IF ~IsSome(c.target)
        THEN [c |-> c, res |-> "Panic", rewound |-> FALSE]
        ELSE LET target == Unwrap(c.target)
                 expected_sequence_range ==
                     RangeInclusive(c.current_checkpoint.sequence,
                                    c.current_checkpoint.sequence + Len(logs))
             IN  IF IsSome(sequences_missing_from_range(logs, expected_sequence_range))
                 THEN [c |-> rewind, res |-> "Ok", rewound |-> TRUE]
                 ELSE IF logs # << >> /\ last_log.sequence >= target.sequence
                 THEN [c |-> [c EXCEPT !.last_checkpoint = reached],
                       res |-> "Ok", rewound |-> FALSE]
                 ELSE IF logs # << >> /\ range.to >= target.at_block
                 THEN [c |-> rewind, res |-> "Err", rewound |-> TRUE]
                 ELSE [c |-> c, res |-> "Ok", rewound |-> FALSE]

\* A cursor that has indexed nothing yet: both checkpoints at sequence 0.
InitSequenceAware ==
    /\ \E chunk_size \in 1..MaxChunk, mode \in IndexModes, at_block \in 0..1 :
          sa_cursor = [chunk_size |-> chunk_size,
                       last_checkpoint |-> SequenceAwareSyncTarget(0, at_block),
                       current_checkpoint |-> SequenceAwareSyncTarget(0, at_block),
                       target |-> None,
                       index_mode |-> mode]
    /\ sa_action = Sleep
    /\ sa_update = None

\* ForwardSequenceAwareSyncCursorNew::next_action
SequenceAwareNextAction ==
    /\ sa_action = Sleep
    /\ \E answer \in LatestSequenceAndTipAnswers :
          LET out == ForwardSequenceAware_get_next_range(sa_cursor, answer)
          IN  /\ sa_cursor' = out.c
              /\ sa_action' = IF IsSome(out.range) THEN Query(Unwrap(out.range)) ELSE Sleep
    /\ sa_update' = None
    /\ UNCHANGED otherThanSequenceAware

\* The logs fetched for the range of CursorAction::Query are handed to update.
SequenceAwareUpdate ==
    /\ sa_action # Sleep
    /\ \E logs \in LogVectors :
          LET out == ForwardSequenceAware_update(sa_cursor, logs, sa_action.range)
          IN  /\ sa_cursor' = out.c
              /\ sa_update' = Some([logs |-> logs, range |-> sa_action.range,
                                    before |-> sa_cursor, res |-> out.res,
                                    rewound |-> out.rewound])
    /\ sa_action' = Sleep
    /\ UNCHANGED otherThanSequenceAware

NextSequenceAware == SequenceAwareNextAction \/ SequenceAwareUpdate

SequenceAwareInit ==
    /\ InitSequenceAware /\ IdlePM /\ IdleCursor /\ IdleMultisig /\ IdleValidator
    /\ IdleRunAll /\ IdleBackoff /\ IdleOpQueue /\ IdleGcs /\ IdleRetrying /\ IdleAggregation /\ IdleMetadata /\ IdleBackward /\ IdleRetryCall /\ IdleRateLimited /\ IdleGauge

SpecSequenceAware == SequenceAwareInit /\ [][NextSequenceAware]_vars

-----------------------------------------------------------------------------
(*                    RATE-LIMITED CURSOR                                  *)

MaxHeight == 1

\* What sequence_and_tip() of the indexer may answer: the tip is that of the
\* replica that serves the call and may be lower than one reported before.
IndexerSequenceAndTip ==
    {Err} \cup {Ok([count |-> c, tip |-> t]) :
                   c \in {None} \cup {Some(n) : n \in 0..MaxCount}, t \in 0..MaxTip}

\* What get_finalized_block_number() of the indexer may answer.
FinalizedBlockNumbers == {Err} \cup {Ok(t) : t \in 0..MaxTip}

\* RateLimitedContractSyncCursor::sync_end
sync_end(s, chain_tip, max_sequence) ==
    IF s.mode = "Block" THEN Ok(chain_tip)
    ELSE IF IsSome(max_sequence) THEN Ok(Unwrap(max_sequence))
    ELSE Err

\* RateLimitedContractSyncCursor::get_rate_limit: the tip afterwards and
\* whether the caller is to sleep. `elapsed` says that 30 s have passed since
\* the last tip update, `finalized` is what the indexer answers if asked.
get_rate_limit(s, chain_tip, elapsed, finalized) ==
    IF s.next_block + s.chunk_size < chain_tip
    THEN Ok([tip |-> chain_tip, sleep |-> FALSE])
    ELSE IF ~elapsed
    THEN Ok([tip |-> chain_tip, sleep |-> TRUE])
    ELSE IF finalized.ok
    THEN Ok([tip |-> finalized.v, sleep |-> FALSE])
    ELSE Err

\* The watermark that update stores
high_watermark(s) == Max(s.start_block, saturating_sub(s.next_block, s.chunk_size))

\* RateLimitedContractSyncCursor::next_action
RateLimited_next_action(s, chain_tip, max_sequence, elapsed, finalized, answer) ==
    LET unchanged == [s |-> s, tip |-> chain_tip, max_sequence |-> max_sequence,
                      action |-> Sleep]
        rate_limit == get_rate_limit(s, chain_tip, elapsed, finalized)
    IN  IF ~sync_end(s, chain_tip, max_sequence).ok
        THEN [unchanged EXCEPT !.action = [kind |-> "Err"]]
        ELSE IF ~rate_limit.ok
        THEN [unchanged EXCEPT !.action = [kind |-> "Err"]]
        ELSE IF rate_limit.v.sleep
        THEN unchanged
        ELSE IF ~answer.ok
        THEN [s |-> s, tip |-> rate_limit.v.tip, max_sequence |-> max_sequence,
              action |-> [kind |-> "Err"]]
        ELSE IF s.mode = "Sequence" /\ ~IsSome(answer.v.count)
        THEN [s |-> s, tip |-> answer.v.tip, max_sequence |-> answer.v.count,
              action |-> [kind |-> "Err"]]
        ELSE LET out == SyncState_get_next_range(s, answer.v.count, answer.v.tip)
             IN  [s |-> out.s, tip |-> answer.v.tip, max_sequence |-> answer.v.count,
                  action |-> IF IsSome(out.range) THEN Query(Unwrap(out.range)) ELSE Sleep]

\* RateLimitedContractSyncCursor::new. The store holds no watermark, or the
\* one of an earlier run that the cursor resumes from.
InitRateLimited ==
    /\ \E chunk_size \in 1..MaxChunk, initial_height \in 0..MaxHeight, mode \in IndexModes :
          /\ rl_sync_state = ForwardSequenceSyncCursor_new(chunk_size, initial_height,
                                                          initial_height, mode, 0)
          /\ rl_watermark \in {None, Some(initial_height)}
    /\ \E answer \in IndexerSequenceAndTip :
          /\ answer.ok
          /\ rl_tip = answer.v.tip
          /\ rl_max_sequence = answer.v.count
    /\ rl_action = Sleep

\* One turn of the sync loop: next_action of the rate-limited cursor.
RateLimitedNextAction ==
    /\ rl_action # << >>
    /\ rl_action.kind # "Query"
    /\ \E elapsed \in BOOLEAN, finalized \in FinalizedBlockNumbers, answer \in IndexerSequenceAndTip :
          LET out == RateLimited_next_action(rl_sync_state, rl_tip, rl_max_sequence,
                                             elapsed, finalized, answer)
          IN  /\ rl_sync_state' = out.s
              /\ rl_tip' = out.tip
              /\ rl_max_sequence' = out.max_sequence
              /\ rl_action' = out.action
    /\ UNCHANGED rl_watermark
    /\ UNCHANGED otherThanRateLimited

\* One turn of the sync loop after CursorAction::Query(range): the logs of the
\* range are fetched and update is called, which stores the high watermark;
\* the store may fail.
RateLimitedUpdate ==
    /\ rl_action # << >>
    /\ rl_action.kind = "Query"
    /\ \E stored \in BOOLEAN :
          rl_watermark' = IF stored THEN Some(high_watermark(rl_sync_state)) ELSE rl_watermark
    /\ rl_action' = Sleep
    /\ UNCHANGED <<rl_sync_state, rl_tip, rl_max_sequence>>
    /\ UNCHANGED otherThanRateLimited

NextRateLimited == RateLimitedNextAction \/ RateLimitedUpdate

RateLimitedInit ==
    /\ InitRateLimited /\ IdlePM /\ IdleCursor /\ IdleMultisig /\ IdleValidator
    /\ IdleRunAll /\ IdleBackoff /\ IdleOpQueue /\ IdleGcs /\ IdleRetrying /\ IdleAggregation /\ IdleMetadata /\ IdleBackward /\ IdleRetryCall /\ IdleSequenceAware /\ IdleGauge

SpecRateLimited == RateLimitedInit /\ [][NextRateLimited]_vars

-----------------------------------------------------------------------------
(*                    OPERATION QUEUE GAUGES                               *)

NumGaugeOps == 3
NumPushers == 2

GaugeOpIds == 1..NumGaugeOps

\* The tasks that hold a clone of the OpQueue: some push, one pops.
Pushers == 1..NumPushers

Popper == 0

\* get_operation_labels: the destination and the queue label are those of the
\* queue, the app context is that of the operation. Operations 1 and 3 share
\* an app context.
AppContexts == {"context1", "context2"}

get_operation_labels(i) == IF i % 2 = 1 THEN "context1" ELSE "context2"

\* get_operation_metric(op).inc()
IntGauge_inc(metrics, op) == [metrics EXCEPT ![get_operation_labels(op.id)] = @ + 1]

\* get_operation_metric(op).dec()
IntGauge_dec(metrics, op) == [metrics EXCEPT ![get_operation_labels(op.id)] = @ - 1]

\* The attempts an operation carries when it is pushed: never attempted, or
\* waiting for an instant.
GaugeAttempts ==
    {[num_retries |-> 0, next_attempt_after |-> None],
     [num_retries |-> 1, next_attempt_after |-> Some(1)]}

\* The operations no task holds and the heap does not contain
GaugeFree(i) ==
    /\ \A e \in gq_heap : e.id # i
    /\ \A t \in DOMAIN gq_op : IsSome(gq_op[t]) => Unwrap(gq_op[t]).id # i

\* The queue is created empty with its gauges at 0; no call is in progress.
InitGauge ==
    /\ gq_heap = {}
    /\ gq_rx = {}
    /\ gq_metrics = [l \in AppContexts |-> 0]
    /\ gq_pc = [t \in Pushers \cup {Popper} |-> "idle"]
    /\ gq_op = [t \in Pushers \cup {Popper} |-> None]

\* A push that goes on to the heap without touching the gauge.
PushIncrement_Skipped ==
    /\ \E t \in Pushers, i \in GaugeOpIds, a \in GaugeAttempts :
          /\ gq_pc[t] = "idle"
          /\ GaugeFree(i)
          /\ gq_op' = [gq_op EXCEPT ![t] = Some(QueueOperation(i, a))]
          /\ gq_pc' = [gq_pc EXCEPT ![t] = "incremented"]
    /\ UNCHANGED <<gq_heap, gq_rx, gq_metrics>>
    /\ UNCHANGED otherThanGauge

\* OpQueue::push, first statement: the gauge of the operation is incremented.
PushIncrement ==
    /\ \E t \in Pushers, i \in GaugeOpIds, a \in GaugeAttempts :
          /\ gq_pc[t] = "idle"
          /\ GaugeFree(i)
          /\ gq_metrics' = IntGauge_inc(gq_metrics, QueueOperation(i, a))
          /\ gq_op' = [gq_op EXCEPT ![t] = Some(QueueOperation(i, a))]
          /\ gq_pc' = [gq_pc EXCEPT ![t] = "incremented"]
    /\ UNCHANGED <<gq_heap, gq_rx>>
    /\ UNCHANGED otherThanGauge

\* OpQueue::push, second statement: the operation is pushed under the lock.
PushLocked ==
    /\ \E t \in Pushers :
          /\ gq_pc[t] = "incremented"
          /\ gq_heap' = gq_heap \cup {Unwrap(gq_op[t])}
          /\ gq_op' = [gq_op EXCEPT ![t] = None]
          /\ gq_pc' = [gq_pc EXCEPT ![t] = "idle"]
    /\ UNCHANGED <<gq_rx, gq_metrics>>
    /\ UNCHANGED otherThanGauge

\* A message id is sent on the retry channel.
GaugeSendRetry ==
    /\ \E i \in GaugeOpIds :
          /\ i \notin gq_rx
          /\ gq_rx' = gq_rx \cup {i}
    /\ UNCHANGED <<gq_heap, gq_metrics, gq_pc, gq_op>>
    /\ UNCHANGED otherThanGauge

\* OpQueue::pop, first statement: the retry requests are processed under the
\* lock.
PopProcessRetryRequests ==
    /\ gq_pc[Popper] = "idle"
    /\ gq_heap' = process_retry_requests(gq_heap, gq_rx)
    /\ gq_rx' = {}
    /\ gq_pc' = [gq_pc EXCEPT ![Popper] = "processed"]
    /\ gq_op' = [gq_op EXCEPT ![Popper] = None]
    /\ UNCHANGED gq_metrics
    /\ UNCHANGED otherThanGauge

\* OpQueue::pop, second statement: the heap is popped under the lock; the
\* call returns None from an empty heap.
PopLocked ==
    /\ gq_pc[Popper] = "processed"
    /\ IF gq_heap = {}
       THEN /\ gq_pc' = [gq_pc EXCEPT ![Popper] = "idle"]
            /\ UNCHANGED <<gq_heap, gq_op>>
       ELSE \E op \in BinaryHeap_pop(gq_heap) :
               /\ gq_heap' = gq_heap \ {op}
               /\ gq_op' = [gq_op EXCEPT ![Popper] = Some(op)]
               /\ gq_pc' = [gq_pc EXCEPT ![Popper] = "popped"]
    /\ UNCHANGED <<gq_rx, gq_metrics>>
    /\ UNCHANGED otherThanGauge

\* OpQueue::pop, the closure of op.map: the gauge of the popped operation is
\* decremented and the operation is returned to the caller.
PopDecrement ==
    /\ gq_pc[Popper] = "popped"
    /\ gq_metrics' = IntGauge_dec(gq_metrics, Unwrap(gq_op[Popper]))
    /\ gq_op' = [gq_op EXCEPT ![Popper] = None]
    /\ gq_pc' = [gq_pc EXCEPT ![Popper] = "idle"]
    /\ UNCHANGED <<gq_heap, gq_rx>>
    /\ UNCHANGED otherThanGauge

NextGauge ==
    \/ PushIncrement
    \/ PushLocked
    \/ GaugeSendRetry
    \/ PopProcessRetryRequests
    \/ PopLocked
    \/ PopDecrement

GaugeInit ==
    /\ InitGauge /\ IdlePM /\ IdleCursor /\ IdleMultisig /\ IdleValidator
    /\ IdleRunAll /\ IdleBackoff /\ IdleOpQueue /\ IdleGcs /\ IdleRetrying /\ IdleAggregation /\ IdleMetadata /\ IdleBackward /\ IdleRetryCall /\ IdleSequenceAware /\ IdleRateLimited

SpecGauge == GaugeInit /\ [][NextGauge]_vars

-----------------------------------------------------------------------------
(*                    CLAIMS: PENDING MESSAGE                              *)

C2_ConfirmedImpliesDelivered ==
    (result.op = "confirm" /\ result.res = "Success")
        => (delivered /\ origin_db.processed /\ success_calls = 1)

C2_Witness ==
    result.op = "confirm" /\ result.res = "Success" /\ pm.num_retries > 0

-----------------------------------------------------------------------------
(*                    CLAIMS: FORWARD CURSOR                               *)

\* The store holds the log of a sequence.
Stored(q) == IsSome(retrieve_by_sequence(db_logs, q))

\* C3 (as stated): in Block mode and in Sequence mode alike, every sequence
\* from the cursor's initial next_sequence up to its current next_sequence is
\* in the store.  The claim is read between two turns of the sync loop, when
\* the logs of the last range have been stored and handed to update.
C3_Original ==
    (cursor_action = Sleep)
        => \A q \in initial_sequence..(sync_state.next_sequence - 1) : Stored(q)

\* The step in which the sync loop hands the fetched logs to update.
UpdateStep == cursor_action.kind = "Query" /\ cursor_action'.kind = "Sleep"

\* Where C4 says next_block is rewound to: the stored dispatch block of
\* next_sequence - 1, or start_block if that sequence is not stored.
RewindTarget(s, db) ==
    IF s.next_sequence > 0 /\ IsSome(retrieve_log_block_number(db, s.next_sequence - 1))
    THEN Unwrap(retrieve_log_block_number(db, s.next_sequence - 1))
    ELSE s.start_block

\* C4 (as stated): whenever the logs handed to update do not contain
\* next_sequence, update leaves next_sequence unchanged and sets next_block to
\* the stored dispatch block of next_sequence - 1, or to start_block.
C4_Original ==
    [][(UpdateStep /\ sync_state.next_sequence \notin Unwrap(update_logs'))
          => /\ sync_state'.next_sequence = sync_state.next_sequence
             /\ sync_state'.next_block = RewindTarget(sync_state, db_logs')]_vars

\* C4 (amended): update never changes next_sequence; when the logs handed to
\* update hold a sequence above next_sequence but not next_sequence itself,
\* next_block is set to the stored dispatch block of next_sequence - 1, or to
\* start_block; when they hold no sequence at or above next_sequence (no logs
\* at all, or only logs indexed before), update changes nothing.
C4_RewindOnlyOnLaterLogs ==
    [][UpdateStep
          => LET logs == Unwrap(update_logs')
                 later == {m \in logs : m >= sync_state.next_sequence}
             IN  /\ sync_state'.next_sequence = sync_state.next_sequence
                 /\ IF later # {} /\ sync_state.next_sequence \notin logs
                    THEN sync_state' = [sync_state EXCEPT
                            !.next_block = RewindTarget(sync_state, db_logs')]
                    ELSE sync_state' = sync_state]_vars

\* update has just rewound next_block to the block of the stored previous
\* sequence, on logs that held a later sequence only.
C4_Witness ==
    /\ IsSome(update_logs)
    /\ sync_state.next_sequence \notin Unwrap(update_logs)
    /\ \E m \in Unwrap(update_logs) : m > sync_state.next_sequence
    /\ sync_state.next_sequence > initial_sequence
    /\ Stored(sync_state.next_sequence - 1)
    /\ sync_state.next_block = Unwrap(db_logs[sync_state.next_sequence - 1])
    /\ sync_state.next_block # sync_state.start_block

\* C5 (as stated): once the provider returns complete logs, the forward
\* cursor eventually has stored every sequence below the on-chain count,
\* whatever was dropped before and whether or not a further message is
\* dispatched.
C5_Original ==
    reliable ~> (\A q \in initial_sequence..(Len(dispatched) - 1) : Stored(q))

-----------------------------------------------------------------------------
(*                    CLAIMS: MULTISIG AGGREGATOR                          *)

\* The call returned a multisig checkpoint.
ReturnedMultisig ==
    ms_call.fn # "none" /\ ms_result.ok /\ IsSome(ms_result.v)

\* The validators that hold, for the index, a checkpoint of that index and of
\* the root whose signature recovers to themselves.
ValidSigners(root, index) ==
    {v \in Validators :
        /\ IsSome(storage[v][index])
        /\ Unwrap(storage[v][index]).value.index = index
        /\ Unwrap(storage[v][index]).value.root = root
        /\ recover(Unwrap(storage[v][index])) = Ok(v)}

WeightOf(S) == SumWeights(weighted_validators, S)

\* The signers of one root reach the threshold at the index.
QuorumExists(index) ==
    \E r \in Roots :
        ValidSigners(r, index) # {} /\ WeightOf(ValidSigners(r, index)) >= threshold_weight

\* The validators whose signatures a multisig checkpoint contains.
SignersOf(m) == {Unwrap(m.signatures[k].by) : k \in 1..Len(m.signatures)}

\* A multisig checkpoint is a quorum at the index.
IsQuorumAt(m, index) ==
    /\ m.checkpoint.index = index
    /\ SignersOf(m) \subseteq ValidSigners(m.checkpoint.root, index)
    /\ WeightOf(SignersOf(m)) >= threshold_weight

\* C6 (as stated): fetch_checkpoint returns a multisig checkpoint only if its
\* signers all signed the same root at exactly that index and their summed
\* weight reaches the threshold; when no single root's signers reach the
\* threshold it returns None.
C6_Original ==
    (ms_call.fn = "fetch_checkpoint")
        => /\ ReturnedMultisig => IsQuorumAt(Unwrap(ms_result.v), ms_call.index)
           /\ ~QuorumExists(ms_call.index) => ms_result = Ok(None)

\* C7 (as stated): every signature of a returned multisig checkpoint
\* recovers, over the checkpoint value the multisig checkpoint carries, to a
\* declared validator, and stems from a stored checkpoint of the requested
\* index whose signature recovers to the validator that stores it.
C7_Original ==
    ReturnedMultisig
        => LET m == Unwrap(ms_result.v)
           IN  \A k \in 1..Len(m.signatures) :
                  /\ recover_over(m.checkpoint, m.signatures[k]).ok
                  /\ recover_over(m.checkpoint, m.signatures[k]).v \in Validators
                  /\ \E v \in Validators :
                        /\ v \in ValidSigners(m.checkpoint.root, m.checkpoint.index)
                        /\ Unwrap(storage[v][m.checkpoint.index]).signature
                              = m.signatures[k]

\* The position of a signature's signer in the on-chain validator list.
IsmIndex(signature) ==
    CHOOSE k \in 1..Len(weighted_validators) :
        weighted_validators[k].validator = Unwrap(signature.by)

\* C8: in every returned multisig checkpoint the signatures are in ascending
\* order of their signers' positions in the validator list, whatever the
\* order of the weights.
C8_SignaturesAscendByIsmIndex ==
    ReturnedMultisig
        => LET m == Unwrap(ms_result.v)
           IN  \A j, k \in 1..Len(m.signatures) :
                  j < k => IsmIndex(m.signatures[j]) < IsmIndex(m.signatures[k])

\* Two signatures were returned although the later validator of the list has
\* the larger weight and was queried first.
C8_Witness ==
    /\ ReturnedMultisig
    /\ ms_call.fn = "fetch_checkpoint"
    /\ Len(Unwrap(ms_result.v).signatures) >= 2
    /\ weighted_validators[1].weight < weighted_validators[2].weight

\* highest_quorum_index of the inputs.
HighestQuorumIndex ==
    fetch_highest_quorum_index(weighted_validators, threshold_weight,
        sort_descending_by_index(
            latest_checkpoints([k \in Validators |-> k], storage)))

\* C9 (as stated): fetch_checkpoint_in_range(lo, hi) returns the quorum
\* checkpoint at the largest index between lo and min(highest_quorum_index,
\* hi) at which a quorum exists, and None if highest_quorum_index is below lo
\* or no index of the interval has a quorum.
C9_Original ==
    (ms_call.fn = "fetch_checkpoint_in_range")
        => LET top == IF IsSome(HighestQuorumIndex)
                      THEN Min(Unwrap(HighestQuorumIndex), ms_call.maximum_index)
                      ELSE 0 - 1
               candidates == {i \in ms_call.minimum_index..top : QuorumExists(i)}
           IN  IF candidates = {}
               THEN ms_result = Ok(None)
               ELSE /\ ReturnedMultisig
                    /\ IsQuorumAt(Unwrap(ms_result.v),
                                  CHOOSE i \in candidates : \A j \in candidates : j <= i)

-----------------------------------------------------------------------------
(*                    CLAIMS: VALIDATOR SUBMITTER                          *)

EndOfPass ==
    /\ submitter = "ingesting"
    /\ ~(correctness_checkpoint.index + 1 > tree_count(tree))
    /\ submitter' # "ingesting"

\* The indexes of the checkpoints queued in the pass in progress.
QueuedIndexes ==
    {checkpoint_queue[k].checkpoint.index : k \in 1..Len(checkpoint_queue)}

\* C12: a checkpoint the store already returns for an index is neither
\* signed again nor overwritten, and when sign_and_submit_checkpoints
\* returns Ok every queued index that was absent from the store has been
\* signed and holds the queued checkpoint, signed by the validator.
C12_PublishingIsIdempotent ==
    [][/\ \A i \in 0..(MaxLeaves - 1) :
             IsSome(checkpoint_store[i])
                 => /\ checkpoint_store'[i] = checkpoint_store[i]
                    /\ EndOfPass => i \notin pass_signed'
       /\ (EndOfPass /\ submitter' = "idle")
             => \A k \in 1..Len(checkpoint_queue) :
                   LET i == checkpoint_queue[k].checkpoint.index
                   IN  ~IsSome(checkpoint_store[i])
                          => /\ i \in pass_signed'
                             /\ checkpoint_store'[i]
                                   = Some(sign(ValidatorKey, checkpoint_queue[k]))]_vars

\* After a restart a pass over indexes 0 and 1 has left the checkpoint the
\* store already held for index 0, which differs from the queued one,
\* untouched and has signed and written index 1.
C12_Witness ==
    /\ submitter = "idle"
    /\ QueuedIndexes = {0, 1}
    /\ IsSome(pass_start_store[0])
    /\ checkpoint_store[0] = pass_start_store[0]
    /\ Unwrap(checkpoint_store[0]).value # checkpoint_queue[1]
    /\ pass_signed = {1}
    /\ IsSome(checkpoint_store[1])

\* C13: the tree only ever changes by gaining, as its k-th leaf, the
\* insertion the database stores for leaf index k; its leaf count never
\* decreases, in passes that ingest as well as in turns of the live loop that
\* find the reported checkpoint behind the tree.
C13_TreeReplaysInsertionsInOrder ==
    [][/\ tree_count(tree') >= tree_count(tree)
       /\ tree' # tree
             => /\ tree_count(tree) + 1 <= Len(message_db)
                /\ tree' = Append(tree, message_db[tree_count(tree) + 1])
       /\ tree' = SubSeq(message_db', 1, tree_count(tree'))]_vars

\* The tree holds two different leaves, the stored insertions 0 and 1, while
\* the chain has a third leaf and checkpoints behind the tree can be reported.
C13_Witness ==
    /\ submitter = "idle"
    /\ tree_count(tree) = 2
    /\ tree[1] # tree[2]
    /\ tree = SubSeq(message_db, 1, 2)
    /\ Len(chain_leaves) = 3
    /\ tree_exceeds_checkpoint(latest_checkpoint(0), tree)

-----------------------------------------------------------------------------
(*                    CLAIMS: RUN_ALL                                      *)

\* C14 (as stated): as soon as one of the supervised tasks has exited and
\* run_all has seen it, whether the task returned Ok, returned an error or
\* panicked, run_all has returned and none of the supervised tasks is still
\* running; what it returns is the first result that was not Ok.
C14_Original ==
    [][ra_tasks' # ra_tasks
          => /\ IsSome(ra_result')
             /\ \A k \in 1..Len(ra_tasks) : task_state'[ra_tasks[k]] # "running"
             /\ task_state[ra_tasks[select_all(task_state, ra_tasks)]] # "ok"
                   => ra_result' = Some([ok |-> FALSE,
                                         v |-> ra_tasks[select_all(task_state, ra_tasks)]])]_vars

-----------------------------------------------------------------------------
(*                    CLAIMS: RETRY COUNT AND BACKOFF                      *)

\* C15 (as stated): after every increment or reset of the retry count the
\* count stored for the message equals the count in memory, and a pending
\* message rebuilt from the store by from_persisted_retries starts with that
\* count and with next_attempt_after = now + calculate_msg_backoff(count).
C15_Original ==
    [][pm'.num_retries # pm.num_retries
          => /\ origin_db'.retry_count = Some(pm'.num_retries)
             /\ LET rebuilt == from_persisted_retries(origin_db')
                    backoff == calculate_msg_backoff(pm'.num_retries)
                IN  /\ rebuilt.num_retries = pm'.num_retries
                    /\ rebuilt.next_attempt_after =
                          IF IsSome(backoff) THEN Some(InstantAfter(Unwrap(backoff))) ELSE None]_vars

\* C16 (as stated): calculate_msg_backoff returns no delay for 0 retries,
\* 10 s for 1 to 11, (retries - 11) x 90 s for 12 to 23, a band that starts
\* at 90 s and ends at 19.5 min, 30 min for 24 to 35, 60 min for 36 to 47 and
\* 3 h from 48 on; for 13 retries it returns 180 s.
C16_Original ==
    IsSome(bo_backoff)
        => LET n == bo_num_retries
               backoff == Unwrap(bo_backoff)
           IN  /\ n = 0 => backoff = None
               /\ (n >= 1 /\ n <= 11) => backoff = Some(10)
               /\ (n >= 12 /\ n <= 23) => backoff = Some((n - 11) * 90)
               /\ n = 12 => backoff = Some(90)
               /\ n = 23 => backoff = Some(1170)
               /\ (n >= 24 /\ n <= 35) => backoff = Some(30 * 60)
               /\ (n >= 36 /\ n <= 47) => backoff = Some(60 * 60)
               /\ n >= 48 => backoff = Some(3 * 60 * 60)
               /\ n = 13 => backoff = Some(180)

-----------------------------------------------------------------------------
(*                    CLAIMS: OPERATION QUEUE                              *)

\* A call of pop on queue q returns in this step.
PopStep(q) ==
    /\ oq_ret'.call = "pop"
    /\ oq_ret'.queue = q
    /\ (oq_ret' # oq_ret \/ oq_heap'[q] # oq_heap[q])

\* The heap of queue q as pop finds it once the retry requests are processed:
\* what is left after the step together with what was popped.
Repriotized(q) == oq_heap'[q] \cup (IF IsSome(oq_ret'.op) THEN {Unwrap(oq_ret'.op)} ELSE {})

retried(e) == IsSome(e.reset_from)

\* The requested operations of q have their attempts reset by the pop, and a
\* queue none of whose operations is requested pops what it would have popped.
RetryResetsAndSpares(q) ==
    /\ \A e \in oq_heap[q] :
          e.id \in oq_rx[q]
              => \E r \in Repriotized(q) :
                    /\ r.id = e.id
                    /\ r.num_retries = 0
                    /\ r.next_attempt_after = None
                    /\ retried(r)
    /\ (\A e \in oq_heap[q] : e.id \notin oq_rx[q])
          => /\ Repriotized(q) = oq_heap[q]
             /\ IsSome(oq_ret'.op) => Unwrap(oq_ret'.op) \in BinaryHeap_pop(oq_heap[q])
    /\ \A p \in Queues : p # q => oq_heap'[p] = oq_heap[p] /\ oq_rx'[p] = oq_rx[p]

C18_PopReturnsMinimum ==
    [][\A q \in Queues :
          PopStep(q)
              => IF IsSome(oq_ret'.op)
                 THEN LET op == Unwrap(oq_ret'.op)
                      IN  /\ op \in process_retry_requests(oq_heap[q], oq_rx[q])
                          /\ oq_heap'[q] = process_retry_requests(oq_heap[q], oq_rx[q]) \ {op}
                          /\ \A o \in oq_heap'[q] :
                                /\ cmp(op, o) # "Greater"
                                /\ IsSome(op.next_attempt_after)
                                      => /\ IsSome(o.next_attempt_after)
                                         /\ Unwrap(op.next_attempt_after)
                                               <= Unwrap(o.next_attempt_after)
                 ELSE oq_heap[q] = {} /\ oq_heap'[q] = {}]_vars

\* An operation waiting for the earlier instant was popped from a heap that
\* holds one waiting for the later instant and had one never attempted popped
\* before; no retry was requested.
C18_Witness ==
    /\ oq_ret.call = "pop"
    /\ IsSome(oq_ret.op)
    /\ Unwrap(oq_ret.op).next_attempt_after = Some(1)
    /\ ~retried(Unwrap(oq_ret.op))
    /\ \E o \in oq_heap[oq_ret.queue] : o.next_attempt_after = Some(MaxInstant) /\ ~retried(o)
    /\ \A q \in Queues : oq_rx[q] = {}

-----------------------------------------------------------------------------
(*                    CLAIMS: FORWARD CURSOR AT THE TIP AND AFTER A RANGE  *)

\* A call of next_action returns in this step.
NextActionStep ==
    /\ cursor_action.kind = "Sleep"
    /\ tip' = tip
    /\ reliable' = reliable
    /\ dispatched' = dispatched

\* next_sequence as get_next_range compares it with the count of the mailbox.
cursor_count == FastForward(sync_state, db_logs).next_sequence

\* C19: when next_sequence, as the cursor compares it, equals the count the
\* chain reports, get_next_range sets next_block to the reported tip and
\* yields no range; next_action then returns Sleep, and nothing is fetched
\* or stored.
C19_AtTipSleeps ==
    [][/\ \A answer \in SequenceAndTipAnswers :
             (answer.ok /\ answer.v.count = Some(cursor_count))
                 => LET out == get_next_range(sync_state, db_logs, answer)
                    IN  /\ out.range = None
                        /\ out.s.next_block = answer.v.tip
                        /\ out.s.next_sequence = cursor_count
       /\ (NextActionStep /\ reliable /\ cursor_count = Len(dispatched))
             => /\ sync_state'.next_block = tip
                /\ sync_state'.next_sequence = Len(dispatched)
                /\ cursor_action' = Sleep
                /\ update_logs' = None
                /\ db_logs' = db_logs]_vars

\* The cursor, level with a mailbox that holds messages, was moved to a tip
\* beyond the block of its last range and sleeps without having fetched.
C19_Witness ==
    /\ reliable
    /\ cursor_action = Sleep
    /\ update_logs = None
    /\ sync_state.next_sequence = Len(dispatched)
    /\ Len(dispatched) > initial_sequence
    /\ sync_state.next_block = tip
    /\ tip = MaxTip
    /\ \A q \in initial_sequence..(Len(dispatched) - 1) : Stored(q) /\ Unwrap(db_logs[q]) < tip

MaxOf(S) == CHOOSE x \in S : \A y \in S : y <= x

\* The range of the query held logs and the fetch returned all of them.
RangeIngested ==
    /\ UpdateStep
    /\ LogsInRange(cursor_action.range) # {}
    /\ LogsInRange(cursor_action.range) \subseteq Unwrap(update_logs')
    /\ \A q \in LogsInRange(cursor_action.range) : IsSome(db_logs'[q])

\* C20 (as stated): after update on a fetched range all of whose sequences
\* were ingested, next_sequence is the highest sequence of the range plus one.
C20_Original ==
    [][RangeIngested
          => sync_state'.next_sequence = MaxOf(LogsInRange(cursor_action.range)) + 1]_vars

\* C20 (amended): update leaves next_sequence as it is. In Sequence mode that
\* is the highest sequence of the range plus one, set when the range was
\* issued. In Block mode it is the fast-forward of the next next_action that
\* moves next_sequence beyond the highest sequence of the range, once every
\* sequence from next_sequence to that one is stored.
C20_NextSequenceAfterRange ==
    [][RangeIngested
          => LET highest == MaxOf(LogsInRange(cursor_action.range))
             IN  /\ sync_state'.next_sequence = sync_state.next_sequence
                 /\ sync_state.mode = "Sequence"
                       => /\ highest = cursor_action.range.to
                          /\ sync_state'.next_sequence = highest + 1
                 /\ (/\ sync_state.mode = "Block"
                     /\ \A q \in sync_state.next_sequence..highest : IsSome(db_logs'[q]))
                       => FastForward(sync_state', db_logs').next_sequence >= highest + 1]_vars

\* In Block mode a range with two logs has been ingested and next_sequence is
\* still below them; the next fast-forward brings it to the highest plus one.
C20_Witness ==
    /\ cursor_action = Sleep
    /\ IsSome(update_logs)
    /\ sync_state.mode = "Block"
    /\ \E a, b \in Unwrap(update_logs) : a < b
    /\ sync_state.next_sequence <= MaxOf(Unwrap(update_logs) \cup {0})
    /\ \A q \in Unwrap(update_logs) : Stored(q)
    /\ FastForward(sync_state, db_logs).next_sequence = MaxOf(Unwrap(update_logs) \cup {0}) + 1

-----------------------------------------------------------------------------
(*                    CLAIMS: HIGHEST QUORUM INDEX                         *)

\* The summed weight of a set of declared validators.
RECURSIVE DeclaredWeight(_)
DeclaredWeight(S) ==
    IF S = {} THEN 0
    ELSE LET v == CHOOSE x \in S : TRUE
         IN  weighted_validators[v].weight + DeclaredWeight(S \ {v})

\* The distinct declared validators among the first k entries.
SeenBy(sorted_indices, k) == {sorted_indices[j][1] : j \in 1..k} \cap Validators

\* C21: fetch_highest_quorum_index returns the index of the first entry at
\* which the summed weight of the distinct declared validators seen so far
\* reaches the threshold, and None if no entry does; with a threshold of 0
\* that is the highest reported index, with the total weight as threshold the
\* lowest of the declared validators' highest indices.
C21_FirstEntryReachingThreshold ==
    (ms_call.fn = "fetch_highest_quorum_index")
        => LET sorted_indices == ms_call.sorted_indices
               hits == {k \in 1..Len(sorted_indices) :
                           DeclaredWeight(SeenBy(sorted_indices, k)) >= threshold_weight}
           IN  IF hits = {}
               THEN ms_result = None
               ELSE /\ ms_result = Some(sorted_indices[CHOOSE k \in hits : \A j \in hits : k <= j][2])
                    /\ threshold_weight = 0 => ms_result = Some(sorted_indices[1][2])
                    /\ threshold_weight = DeclaredWeight(Validators)
                          => \E v \in Validators :
                                /\ Unwrap(ms_result)
                                      = MaxOf({sorted_indices[j][2] : j \in {i \in 1..Len(sorted_indices) : sorted_indices[i][1] = v}})
                                /\ \A w \in Validators, j \in 1..Len(sorted_indices) :
                                      sorted_indices[j][1] = w
                                          => \E i \in 1..Len(sorted_indices) :
                                                sorted_indices[i][1] = w
                                                    /\ sorted_indices[i][2] >= Unwrap(ms_result)

\* The call went past a second entry of the validator it had counted first
\* and returned the lower index of the third entry.
C21_Witness ==
    /\ ms_call.fn = "fetch_highest_quorum_index"
    /\ Len(ms_call.sorted_indices) = 3
    /\ ms_call.sorted_indices[1][1] \in Validators
    /\ \E k \in 2..3 : ms_call.sorted_indices[k][1] = ms_call.sorted_indices[1][1]
    /\ ms_call.sorted_indices[3][1] \in Validators
    /\ IsSome(ms_result)
    /\ Unwrap(ms_result) = ms_call.sorted_indices[3][2]
    /\ Unwrap(ms_result) < ms_call.sorted_indices[1][2]
    /\ threshold_weight > 0

-----------------------------------------------------------------------------
(*                    CLAIMS: PREPARE                                      *)

\* C22: when the message is ready, the destination answers that it is not
\* delivered and that its recipient is not a contract, prepare returns Drop and
\* leaves the pending message and the stored retry count as they were; no
\* submission data is ever stored for such a message, so submit never has
\* what it needs to call process, and a dropped message stays dropped.
C22_NotAContractDrops ==
    [][/\ (stage = "prepare" /\ ~recipient_is_contract /\ is_ready(pm))
             => \A a \in PrepareAnswers, db_ok \in BOOLEAN :
                   (a.delivered = Ok(FALSE) /\ a.is_contract = Ok(FALSE))
                       => prepare(State, a, transaction_gas_limit, db_ok)
                             = Outcome(State, "Drop")
       /\ (stage = "prepare" /\ stage' = "dropped")
             => /\ ~recipient_is_contract
                /\ result' = [op |-> "prepare", res |-> "Drop"]
                /\ pm' = pm
                /\ origin_db' = origin_db
       /\ ~recipient_is_contract
             => /\ pm'.submission_data = None
                /\ result'.res # "Panic"
       /\ stage = "dropped" => UNCHANGED <<pm, origin_db, stage, result>>]_vars

\* A message that had been retried once was dropped: its retry count is still
\* one, in memory and in the store, and it holds no submission data.
C22_Witness ==
    /\ stage = "dropped"
    /\ result = [op |-> "prepare", res |-> "Drop"]
    /\ ~recipient_is_contract
    /\ pm.num_retries = 1
    /\ origin_db.retry_count = Some(1)
    /\ pm.submission_data = None
    /\ ~pm.submitted

\* C30 (as stated): whenever prepare stores submission data, the gas limit in
\* it is the limit the gas payment enforcer returned on approving the message.
C30_Original ==
    (stage = "prepare")
        => \A a \in PrepareAnswers, db_ok \in BOOLEAN :
              LET out == prepare(State, a, transaction_gas_limit, db_ok)
              IN  (/\ out.res = "Success"
                   /\ IsSome(out.s.pm.submission_data)
                   /\ a.enforcer.ok
                   /\ IsSome(a.enforcer.v))
                      => Unwrap(out.s.pm.submission_data).gas_limit = Unwrap(a.enforcer.v)

-----------------------------------------------------------------------------
(*                    CLAIMS: GCS CHECKPOINT STORAGE                       *)

\* The indices whose checkpoint object the bucket holds.
WrittenIndices(bucket) ==
    {i \in GcsIndices : IsSome(bucket[get_checkpoint_key(i)])}

\* The index held by the latest-index object, None when there is no such object.
StoredLatest(bucket) ==
    IF IsSome(bucket[LATEST_INDEX_KEY])
    THEN Some(Unwrap(bucket[LATEST_INDEX_KEY])[3])
    ELSE None

\* C23 (as stated): latest_index() reports the highest checkpoint index
\* written so far: a latest_index() call whose request went through returns
\* Some(j) with j at least every index write_checkpoint has stored, and the
\* stored latest index never decreases.
C23_Original ==
    [][/\ (gcs_call'.fn = "latest_index" /\ ~gcs_call'.fails)
              => \A i \in WrittenIndices(gcs_bucket) :
                     /\ gcs_call'.ret.ok
                     /\ IsSome(gcs_call'.ret.v)
                     /\ Unwrap(gcs_call'.ret.v) >= i
       /\ IsSome(StoredLatest(gcs_bucket))
              => /\ IsSome(StoredLatest(gcs_bucket'))
                 /\ Unwrap(StoredLatest(gcs_bucket')) >= Unwrap(StoredLatest(gcs_bucket))]_vars

\* C24 (as stated): reading what was never written is absence, not failure:
\* with no latest-index object in the bucket a latest_index() call whose
\* request went through returns Ok(None), and fetch_checkpoint(i) for an index
\* whose checkpoint object does not exist returns Ok(None).
C24_Original ==
    [][/\ (/\ gcs_call'.fn = "latest_index"
           /\ ~gcs_call'.fails
           /\ ~IsSome(gcs_bucket[LATEST_INDEX_KEY]))
              => gcs_call'.ret = Ok(None)
       /\ (/\ gcs_call'.fn = "fetch_checkpoint"
           /\ ~gcs_call'.fails
           /\ Unwrap(gcs_call'.index) \notin WrittenIndices(gcs_bucket))
              => gcs_call'.ret = Ok(None)]_vars

-----------------------------------------------------------------------------
(*                    CLAIMS: RETRYING PROVIDER                            *)

\* C25 (as stated): a request whose method is on the non-retriable list
\* reaches the inner provider at most once, whatever the error.
C25_Original ==
    rp_method \in METHODS_TO_NOT_RETRY => Len(rp_answers) <= 1

\* C25 (amended): a request whose method is on the non-retriable list is never
\* re-issued after a JSON-RPC error: that error is the last answer and the call
\* has returned it as JsonRpcClientError. Connection (reqwest) and
\* deserialisation errors are retried for every method, listed or not, and
\* JSON-RPC errors for the methods not listed: no request reaches the inner
\* provider more than max_requests times, the k-th re-issue comes after a sleep
\* of base_retry_ms * 2^(k-1) ms, and an error other than the JSON-RPC error
\* of a listed method is only returned, as MaxRequests, once max_requests
\* requests have been made.
C25_NoReissueAfterJsonRpcError ==
    /\ Len(rp_answers) <= rp_max_requests
    /\ rp_method \in METHODS_TO_NOT_RETRY
          => \A k \in 1..Len(rp_answers) :
                 rp_answers[k] = "JsonRpcError"
                     => /\ k = Len(rp_answers)
                        /\ rp_result = Some(JsonRpcClientError("JsonRpcError"))
    /\ Len(rp_sleeps) = IF rp_result = None THEN Len(rp_answers) ELSE Len(rp_answers) - 1
    /\ \A k \in 1..Len(rp_sleeps) :
          /\ rp_answers[k] \in HttpClientErrors
          /\ rp_sleeps[k] = rp_base_retry_ms * pow2(k - 1)
    /\ (rp_result # None /\ ~Unwrap(rp_result).ok)
          => \/ /\ Unwrap(rp_result).err = "MaxRequests"
                /\ Len(rp_answers) = rp_max_requests
             \/ /\ Unwrap(rp_result).err = "JsonRpcClientError"
                /\ rp_method \in METHODS_TO_NOT_RETRY

\* eth_sendRawTransaction, with the default settings, met a connection error,
\* was re-issued after 50 ms, and returned the JSON-RPC error of the second
\* request without a third request.
C25_Witness ==
    /\ rp_method = "eth_sendRawTransaction"
    /\ rp_max_requests = DefaultMaxRequests
    /\ rp_base_retry_ms = DefaultBaseRetryMs
    /\ rp_answers = <<"ReqwestError", "JsonRpcError">>
    /\ rp_sleeps = <<50>>
    /\ rp_result = Some(JsonRpcClientError("JsonRpcError"))

-----------------------------------------------------------------------------
(*                    CLAIMS: AGGREGATION ISM METADATA                     *)

\* The u32 held big-endian in four bytes.
from_be_bytes(b) == ((b[1] * 256 + b[2]) * 256 + b[3]) * 256 + b[4]

\* C26 (as stated): the blob returned by build holds one (start, end) pair of
\* big-endian u32 offsets per declared sub-ISM, in declared order, followed by
\* the payloads: for a sub-ISM whose metadata was built the bytes [start, end)
\* of the blob are that metadata, and for one whose metadata is missing
\* start = end.
C26_Original ==
    (IsSome(ag_result) /\ Unwrap(ag_result).ok /\ IsSome(Unwrap(ag_result).v))
        => LET blob == Unwrap(Unwrap(ag_result).v)
               n == Len(ag_metadatas)
           IN  /\ Len(blob) >= METADATA_RANGE_SIZE * 2 * n
               /\ \A k \in 1..n :
                     LET at == METADATA_RANGE_SIZE * 2 * (k - 1)
                         start == from_be_bytes(SubSeq(blob, at + 1, at + 4))
                         end == from_be_bytes(SubSeq(blob, at + 5, at + 8))
                         m == ag_metadatas[k]
                     IN  IF m.ok /\ IsSome(m.v)
                         THEN /\ start <= end
                              /\ end <= Len(blob)
                              /\ SubSeq(blob, start + 1, end) = Unwrap(m.v)
                         ELSE start = end

-----------------------------------------------------------------------------
(*                    CLAIMS: RECURSIVE METADATA BUILDER                   *)

\* C27: metadata building never dispatches a sub-builder for more than
\* max_depth nested ISMs: the depth of a running builder never exceeds
\* max_depth, a build that returned MaxDepthExceeded had descended through
\* exactly max_depth ISMs and reports depth max_depth + 1, and every build
\* returns, also when routing ISMs route to each other in a cycle.
C27_DepthBoundedAndTerminates ==
    /\ [](/\ md_depth <= md_max_depth
          /\ Len(md_path) <= md_max_depth
          /\ (md_result # None /\ Unwrap(md_result) = MaxDepthExceeded(md_max_depth + 1))
                => Len(md_path) = md_max_depth)
    /\ <>(md_result # None)

\* Two routing ISMs route to each other; the build with the default max_depth
\* of 5 went round the cycle and failed with MaxDepthExceeded(6).
C27_Witness ==
    /\ md_isms[1] = [module_type |-> Routing, route |-> 2]
    /\ md_isms[2] = [module_type |-> Routing, route |-> 1]
    /\ md_max_depth = 5
    /\ md_path = <<1, 2, 1, 2, 1>>
    /\ md_result = Some(MaxDepthExceeded(6))

-----------------------------------------------------------------------------
(*                    CLAIMS: BACKWARD CURSOR                              *)

\* The store holds the log of the sequence the cursor is looking for.
FoundNext(s, db) == IsSome(retrieve_by_sequence(db, s.next_sequence))

-----------------------------------------------------------------------------
(*                    CLAIMS: UNRECOVERABLE SIGNATURES                     *)

\* The validators whose stored checkpoint for the index is of that index and
\* carries a signature from which no signer can be recovered.
UnrecoverableAt(index) ==
    {v \in Validators :
        /\ IsSome(storage[v][index])
        /\ Unwrap(storage[v][index]).value.index = index
        /\ ~recover(Unwrap(storage[v][index])).ok}

\* C29 (as stated): when a validator's stored checkpoint for the index carries
\* a signature that cannot be recovered, fetch_checkpoint still returns a
\* quorum for the index if the other validators' signatures on one root reach
\* the threshold.
C29_Original ==
    (/\ ms_call.fn = "fetch_checkpoint"
     /\ UnrecoverableAt(ms_call.index) # {}
     /\ QuorumExists(ms_call.index))
        => /\ ReturnedMultisig
           /\ IsQuorumAt(Unwrap(ms_result.v), ms_call.index)

-----------------------------------------------------------------------------
(*                    CLAIMS: GAS LIMIT CAP                                *)

\* A prepare call with these answers gets as far as the comparison of the
\* estimated gas limit with the cap.
ReachesCapCheck(a) ==
    /\ is_ready(pm)
    /\ a.delivered.ok /\ ~a.delivered.v
    /\ a.is_contract.ok /\ a.is_contract.v
    /\ a.recipient_ism.ok
    /\ a.metadata.ok /\ IsSome(a.metadata.v)
    /\ a.estimate.ok
    /\ a.enforcer.ok /\ IsSome(a.enforcer.v)

\* C31: with a transaction_gas_limit configured, the submission data a pending
\* message holds never has a gas limit above it, so submit never passes a
\* larger one to process; and a prepare call whose estimated limit exceeds the
\* cap stores nothing and returns Reprepare with the retry count incremented.
C31_CapEnforced ==
    (stage \in PendingStages /\ IsSome(transaction_gas_limit))
        => /\ IsSome(pm.submission_data)
                 => Unwrap(pm.submission_data).gas_limit <= Unwrap(transaction_gas_limit)
           /\ stage = "prepare"
                 => \A a \in PrepareAnswers, db_ok \in BOOLEAN :
                       LET out == prepare(State, a, transaction_gas_limit, db_ok)
                       IN  /\ IsSome(out.s.pm.submission_data)
                                 => Unwrap(out.s.pm.submission_data).gas_limit
                                        <= Unwrap(transaction_gas_limit)
                           /\ (ReachesCapCheck(a) /\ a.estimate.v > Unwrap(transaction_gas_limit))
                                 => /\ out.res = "Reprepare"
                                    /\ out.s.pm.num_retries = Min(pm.num_retries + 1, MaxRetries)
                                    /\ out.s.pm.submission_data = pm.submission_data
                                    /\ ~out.s.pm.submitted

\* Under a cap of 1 a message was first sent back by prepare and then prepared
\* with a gas limit of 1; submit is about to pass that limit to process.
C31_Witness ==
    /\ stage = "submit"
    /\ transaction_gas_limit = Some(1)
    /\ result = [op |-> "prepare", res |-> "Success"]
    /\ IsSome(pm.submission_data)
    /\ Unwrap(pm.submission_data).gas_limit = 1
    /\ pm.num_retries > 0
    /\ ~pm.submitted

-----------------------------------------------------------------------------
(*                    CLAIMS: SUBMIT                                       *)

\* submit is about to be called on a prepared message that is not submitted.
SubmitOfPrepared ==
    stage = "submit" /\ ~pm.submitted /\ IsSome(pm.submission_data)

\* C32 (as stated): submit on a prepared, not yet submitted message returns
\* Success with submitted set, the retry count at 0 and the next attempt at
\* now + CONFIRM_DELAY whenever the outcome of process reports executed, and
\* Reprepare with submitted unset and the retry count incremented whenever it
\* reports not executed.
C32_Original ==
    SubmitOfPrepared
        => \A a \in SubmitAnswers, db_ok \in BOOLEAN :
              LET out == submit(State, a, db_ok)
              IN  a.process.ok
                     => IF a.process.v.executed
                        THEN /\ out.res = "Success"
                             /\ out.s.pm.submitted
                             /\ out.s.pm.num_retries = 0
                             /\ out.s.pm.next_attempt_after = Some(InstantAfter(CONFIRM_DELAY))
                        ELSE /\ out.res = "Reprepare"
                             /\ ~out.s.pm.submitted
                             /\ out.s.pm.num_retries = Min(pm.num_retries + 1, MaxRetries)

\* C32 (amended): submit on a prepared, not yet submitted message takes the
\* stored submission data for its one call of process, so none is left after
\* the call. If process fails, Reprepare is returned with the retry count
\* incremented. If process answers and the outcome cannot be recorded,
\* CriticalFailure is returned, whatever the outcome. Otherwise an executed
\* outcome gives Success with submitted set, the retry count at 0 and the next
\* attempt at now + CONFIRM_DELAY, and an outcome that is not executed gives
\* Reprepare with submitted unset and the retry count incremented.
C32_SubmitOutcomes ==
    SubmitOfPrepared
        => \A a \in SubmitAnswers, db_ok \in BOOLEAN :
              LET out == submit(State, a, db_ok)
                  reprepared == /\ out.res = "Reprepare"
                                /\ ~out.s.pm.submitted
                                /\ out.s.pm.num_retries = Min(pm.num_retries + 1, MaxRetries)
              IN  /\ out.s.pm.submission_data = None
                  /\ ~a.process.ok => reprepared
                  /\ (a.process.ok /\ ~a.record_tx_outcome.ok)
                        => /\ out.res = "CriticalFailure"
                           /\ ~out.s.pm.submitted
                           /\ out.s.pm.num_retries = pm.num_retries
                  /\ (a.process.ok /\ a.record_tx_outcome.ok)
                        => IF a.process.v.executed
                           THEN /\ out.res = "Success"
                                /\ out.s.pm.submitted
                                /\ out.s.pm.num_retries = 0
                                /\ out.s.pm.next_attempt_after
                                      = Some(InstantAfter(CONFIRM_DELAY))
                           ELSE reprepared

\* A message that had been retried is prepared and about to be submitted.
C32_Witness ==
    /\ SubmitOfPrepared
    /\ pm.num_retries > 0
    /\ ~delivered

-----------------------------------------------------------------------------
(*                    CLAIMS: CONFIRM ON A PROVIDER ERROR                  *)

\* C33: a confirm call of a ready, submitted message in which the
\* delivered(id) query fails returns NotReady, increments the retry count,
\* moves next_attempt_after out by the backoff of the new count and leaves
\* submitted set, so the operation stays in the confirm stage; and whenever
\* confirm has returned NotReady the operation is in the confirm stage with
\* submitted set.
C33_ConfirmErrorIsNotReady ==
    /\ (stage = "confirm" /\ is_ready(pm) /\ pm.submitted)
          => \A a \in ConfirmAnswers, db_ok \in BOOLEAN :
                LET out == confirm(State, a, db_ok)
                IN  ~a.delivered.ok
                       => /\ out.res = "NotReady"
                          /\ NextStage("confirm", out.res) = "confirm"
                          /\ out.s.pm.submitted
                          /\ out.s.pm.num_retries = Min(pm.num_retries + 1, MaxRetries)
                          /\ out.s.pm.next_attempt_after
                                = Some(InstantAfter(Unwrap(
                                      calculate_msg_backoff(out.s.pm.num_retries))))
                          /\ out.s.pm.submission_data = pm.submission_data
    /\ (result = [op |-> "confirm", res |-> "NotReady"] /\ stage # "none")
          => (stage = "confirm" /\ pm.submitted)

\* The delivered(id) query of a confirm call failed: the message waits for its
\* next attempt in the confirm stage with one retry counted.
C33_Witness ==
    /\ result = [op |-> "confirm", res |-> "NotReady"]
    /\ stage = "confirm"
    /\ pm.submitted
    /\ pm.num_retries = 1
    /\ pm.next_attempt_after = Some(10)

-----------------------------------------------------------------------------
(*                    CLAIMS: CRITICAL FAILURES                            *)

\* C34: a submit call in which process answered and the outcome could not be
\* recorded, and a confirm call in which the message was reported delivered
\* and the processed flag could not be stored, return CriticalFailure, which
\* takes the operation out of every queue and ends the submitter; an
\* operation that ended so is never handed to prepare, submit or confirm again.
C34_CriticalFailureTerminates ==
    /\ SubmitOfPrepared
          => \A a \in SubmitAnswers, db_ok \in BOOLEAN :
                (a.process.ok /\ ~a.record_tx_outcome.ok)
                    => /\ submit(State, a, db_ok).res = "CriticalFailure"
                       /\ NextStage("submit", submit(State, a, db_ok).res) = "crashed"
    /\ (stage = "confirm" /\ pm.submitted /\ is_ready(pm))
          => \A a \in ConfirmAnswers, db_ok \in BOOLEAN :
                (a.delivered.ok /\ a.delivered.v /\ ~a.store_processed.ok)
                    => /\ confirm(State, a, db_ok).res = "CriticalFailure"
                       /\ NextStage("confirm", confirm(State, a, db_ok).res) = "crashed"
    /\ result.res = "CriticalFailure"
          => /\ stage = "crashed"
             /\ result.op \in {"submit", "confirm"}
             /\ ~origin_db.processed
             /\ ~ENABLED (Prepare \/ Submit \/ Confirm)

\* The message was delivered, confirm could not store the processed flag, and
\* the submitter has ended.
C34_Witness ==
    /\ stage = "crashed"
    /\ result = [op |-> "confirm", res |-> "CriticalFailure"]
    /\ delivered
    /\ pm.submitted
    /\ ~origin_db.processed

-----------------------------------------------------------------------------
(*                    CLAIMS: FRAME OF THE RETRY REQUESTS                  *)

\* A call of pop on queue q, and with it of process_retry_requests, happens in
\* this step.
RetryRequestsProcessed(q) ==
    /\ oq_ret'.call = "pop"
    /\ oq_ret'.queue = q
    /\ \/ oq_ret' # oq_ret
       \/ oq_heap'[q] # oq_heap[q]
       \/ (oq_rx[q] # {} /\ oq_rx'[q] = {})

\* C35: process_retry_requests changes nothing but the attempts of the
\* requested operations: the heap holds the operations of the same ids before
\* and after, an operation that was not named is left as it was, a named one
\* keeps its id and nonce, and every drained request is gone afterwards, also
\* one for an id that is not in the heap, so that an operation pushed later is
\* pushed with the attempts it carries and leaves the others alone.
C35_OnlyRequestedAttemptsChange ==
    [][
        /\ \A q \in Queues :
              RetryRequestsProcessed(q)
                  => /\ {r.id : r \in Repriotized(q)} = {e.id : e \in oq_heap[q]}
                     /\ \A e \in oq_heap[q] :
                           IF e.id \in oq_rx[q]
                           THEN \E r \in Repriotized(q) : r.id = e.id /\ r.nonce = e.nonce
                           ELSE e \in Repriotized(q)
                     /\ oq_rx'[q] = {}
                     /\ \A p \in Queues : p # q => oq_heap'[p] = oq_heap[p]
        /\ (oq_ret'.call = "push" /\ oq_heap' # oq_heap)
              => \E e \in oq_heap'[oq_ret'.queue] :
                    /\ ~retried(e)
                    /\ oq_heap'[oq_ret'.queue] = oq_heap[oq_ret'.queue] \cup {e}
                    /\ e \notin oq_heap[oq_ret'.queue]
                    /\ oq_rx' = oq_rx
    ]_vars

\* An operation has been pushed, with a next_attempt_after and not retried,
\* onto a queue that processed a retry request for its id before the push (the
\* other queue still has that request pending); the heap also holds a retried
\* operation and one that was not named and still waits.
C35_Witness ==
    /\ oq_ret.call = "push"
    /\ oq_rx[oq_ret.queue] = {}
    /\ \E e \in oq_heap[oq_ret.queue] :
          /\ ~retried(e)
          /\ IsSome(e.next_attempt_after)
          /\ \E p \in Queues : p # oq_ret.queue /\ e.id \in oq_rx[p]
    /\ \E e \in oq_heap[oq_ret.queue] : retried(e)
    /\ \E e \in oq_heap[oq_ret.queue] :
          /\ ~retried(e)
          /\ IsSome(e.next_attempt_after)
          /\ \A p \in Queues : e.id \notin oq_rx[p]

-----------------------------------------------------------------------------
(*                    CLAIMS: RETRIED CALLS                                *)

\* C36 (as stated): call_and_retry_n_times(f, n) calls f until it first
\* succeeds and returns that result, and gives up with an error only after n
\* failed calls; call_with_retry does so with n = DEFAULT_MAX_RPC_RETRIES.
C36_Original ==
    /\ rc_fn = "call_with_retry" => rc_n = 10
    /\ IsSome(rc_ret)
          => IF rc_first_ok \in 1..rc_n
             THEN Unwrap(rc_ret) = Ok(rc_first_ok) /\ rc_calls = rc_first_ok
             ELSE Unwrap(rc_ret) = Err /\ rc_calls = rc_n

-----------------------------------------------------------------------------
(*                    CLAIMS: SEQUENCE-AWARE FORWARD CURSOR                *)

\* The sequences the logs of the last update carry
UpdateSequences == {Unwrap(sa_update).logs[k].sequence : k \in 1..Len(Unwrap(sa_update).logs)}

\* C37 (as stated): in Sequence mode, an update whose logs carry exactly the
\* sequences of the queried range does not rewind and advances last_checkpoint
\* to the last log and current_checkpoint to its successor; the update rewinds
\* current_checkpoint to last_checkpoint exactly when some sequence of the
\* range is missing from the logs.
C37_Original ==
    (IsSome(sa_update) /\ sa_cursor.index_mode = "Sequence")
        => LET u == Unwrap(sa_update)
               range == u.range.from..u.range.to
           IN  /\ UpdateSequences = range
                     => /\ ~u.rewound
                        /\ sa_cursor.last_checkpoint =
                              SequenceAwareSyncTarget(u.range.to,
                                                      SequencedLog(u.range.to).block_number)
                        /\ sa_cursor.current_checkpoint =
                              SequenceAwareSyncTarget_next(sa_cursor.last_checkpoint)
               /\ u.rewound <=> (range \ UpdateSequences # {})
               /\ u.rewound => /\ sa_cursor.current_checkpoint = u.before.last_checkpoint
                               /\ sa_cursor.last_checkpoint = u.before.last_checkpoint

-----------------------------------------------------------------------------
(*                    CLAIMS: HIGH WATERMARK                               *)

\* C38 (as stated): every watermark the rate-limited cursor stores is at least
\* the one stored before it, whatever tips the provider reports.
C38_Original ==
    [][rl_watermark' # rl_watermark
          => /\ IsSome(rl_watermark')
             /\ IsSome(rl_watermark) => Unwrap(rl_watermark') >= Unwrap(rl_watermark)]_vars

-----------------------------------------------------------------------------
(*                    CLAIMS: STAGE PRECONDITIONS                          *)

\* C39: with submit called only after prepare returned Success and confirm
\* only after submit returned Success, an operation in the submit stage has
\* submission data or is submitted, one in the confirm stage is submitted, and
\* no call of submit or confirm can panic, whatever results came before.
C39_NoStagePanic ==
    /\ stage = "submit"
          => /\ pm.submitted \/ IsSome(pm.submission_data)
             /\ \A a \in SubmitAnswers, db_ok \in BOOLEAN :
                   submit(State, a, db_ok).res # "Panic"
    /\ stage = "confirm"
          => /\ pm.submitted
             /\ \A a \in ConfirmAnswers, db_ok \in BOOLEAN :
                   confirm(State, a, db_ok).res # "Panic"
    /\ result.res # "Panic"

\* The operation is in the submit stage after a prepare that returned Success
\* and stored submission data, and earlier calls in this run did not succeed:
\* its retry count is above the one the store holds, because an attempt was
\* counted whose count the store failed to take.
C39_Witness ==
    /\ stage = "submit"
    /\ result = [op |-> "prepare", res |-> "Success"]
    /\ ~pm.submitted
    /\ IsSome(pm.submission_data)
    /\ pm.num_retries > 0
    /\ origin_db.retry_count # Some(pm.num_retries)

-----------------------------------------------------------------------------
(*                    CLAIMS: OPERATION QUEUE GAUGES                       *)

\* The operations of the heap with a label
InHeapWithLabel(l) == {e \in gq_heap : get_operation_labels(e.id) = l}

\* C40: under every interleaving of the statements of concurrent push and
\* pop calls, the gauge of a label is at least the number of operations with
\* that label in the heap, and it is that number whenever no call of push or
\* pop is in progress.
C40_GaugeCoversHeap ==
    \A l \in AppContexts :
        /\ gq_metrics[l] >= Cardinality(InHeapWithLabel(l))
        /\ (\A t \in Pushers \cup {Popper} : gq_pc[t] = "idle")
              => gq_metrics[l] = Cardinality(InHeapWithLabel(l))

\* A push of one operation and a pop of another with the same label are both
\* half done, while a third operation is in the heap: the gauge of that label
\* is two above the number in the heap.
C40_Witness ==
    /\ gq_pc[Popper] = "popped"
    /\ \E t \in Pushers :
          /\ gq_pc[t] = "incremented"
          /\ get_operation_labels(Unwrap(gq_op[t]).id)
                = get_operation_labels(Unwrap(gq_op[Popper]).id)
    /\ gq_heap # {}
    /\ \E l \in AppContexts : gq_metrics[l] = Cardinality(InHeapWithLabel(l)) + 2

====
